---- MODULE Spec2Model ----
(***************************************************************************)
(* PDTP-go: the streaming orchestrator (PDFParser.StreamPageContents), the *)
(* page selection arithmetic (normalizePageNum, generateSequence) and the  *)
(* request handler's producer/consumer pair (NewPDFProtocolHandler).       *)
(***************************************************************************)
EXTENDS Integers, Sequences, FiniteSets, TLC

\* ------------------------------------------------------------------ bounds
\* Largest number of pages of a modelled document.
MaxPages == 3
\* Largest page number handed to the selection arithmetic on its own.
SeqMax == 5
\* Largest number of directory records of a modelled font file.
MaxTables == 2
\* Largest number of body bytes of a modelled font file.
MaxBody == 5
\* Largest number of events handed to sendChunk on its own.
MaxChunks == 2
\* Largest number of entries of a modelled xref section.
MaxEntries == 3
\* Largest number of nodes on a modelled /Parent chain, the page included.
MaxChain == 3
\* Largest number of elements of a modelled PDF array.
MaxElems == 2
\* Largest number of lines of a modelled bfrange block.
MaxLines == 2

\* ------------------------------------------------------- program constants
\* make(chan ParsedData, 20)
Capacity == 20
\* parsePDTPField: end = -1 when the header does not set it
DefaultEnd == -1

VARIABLES
  req,          \* the caller's start/end/base as passed to StreamPageContents
  start,        \* StreamPageContents: parameter start (overwritten by normalization)
  end,          \* StreamPageContents: parameter end
  base,         \* StreamPageContents: parameter base
  pageLen,      \* len(p.pageQueue) after loadPageObject
  seqn,         \* sequence returned by generateSequence
  ret,          \* "none" while running, then "nil" or "err"
  pc,           \* position of the running function
  doc,          \* the document on disk: one record per page, in page order
  docState,     \* "ok", "openErr" (open fails), "xrefErr" (NewPDFParser fails on the file) or "treeErr" (catalog/page tree fails)
  pageQueue,    \* p.pageQueue
  pfonts,       \* p.fonts: fontID -> FontDataRef
  idx,          \* index of the page loop in seqn
  pending,      \* Text and Path events of the current page not yet passed to insertData
  imgCommands,  \* imgCommands
  imgIdx,       \* index of the deferred image loop
  fontFileList, \* fontFileList: fontID -> font program reference
  fontsDone,    \* keys of fontFileList the font loop has visited
  emitted,      \* every event passed to insertData, in call order
  sink,         \* "direct": insertData records the event; "chan": insertData is outCh <- data
  outCh,        \* the buffered channel of the request handler
  encoded,      \* every event handed to sendChunk, in call order
  hpc,          \* position of the request handler
  hasFile,      \* the request carries a file parameter
  closed,       \* close(outCh) has run
  cancelled,    \* ctx is cancelled
  pdtpField,    \* the pdtp request header, as a sequence of tokens
  log,          \* the messages written to the logger
  file,         \* the handle returned by the open function: "none", "open" or "closed"
  fontBytes,     \* fixOS2Table: the font bytes, replaced by each result
  fontPrev,     \* the argument of the last fixOS2Table call
  fixes,        \* the number of fixOS2Table calls made
  fixErr,       \* the last fixOS2Table call returned an error
  toSend,       \* the events handed to sendChunk, one after the other
  sendIdx,      \* index in toSend of the event being sent
  written,      \* the bytes written to the FlusherWriter so far
  flushed,      \* the lengths of written at which the transport was flushed
  spc,          \* position in Send: "type", "length", "data" or "flush"
  broken,       \* a Write has failed
  pdf,          \* the file handed to NewPDFParser: its xref section and trailer
  pp,           \* the parser returned by NewPDFParser
  perr,         \* NewPDFParser returned an error
  opc,          \* position of the caller of NewPDFParser
  chain,        \* the page node and its ancestors along /Parent: the /MediaBox of each
  chainEnd,     \* /Parent of the last node: 0 absent, k a reference back to node k, Len+1 a missing object
  loaded,       \* outcome of loadPerPageObject for the page node
  tpc,          \* position of the caller of loadPerPageObject
  value,        \* a PDF value
  text,         \* the characters of the value as written in a file
  parsedObj,    \* result of parseObject on text
  parsedMeta,   \* result of the parser's parseMetadata on text
  cmap,         \* a ToUnicode CMap: its bfrange blocks
  firstChar,    \* /FirstChar of the font
  fontMap,      \* the map returned by ExtractCMaps
  cpc,          \* position of the caller of ExtractCMaps
  contents,     \* TokenObject.contents: the characters of the page's content stream
  pageHeight,   \* ExtractCommands: parameter pageHeight
  tokens,       \* the tokens returned by tokenize
  tokIdx,       \* processTokens: the loop index i (counted from 1)
  currentZ,     \* processTokens: currentZ
  graphicsStack, \* processTokens: graphicsStack, the CTM of each frame, top last
  textState,    \* processTokens: textState
  pathState,    \* processTokens: pathState
  colorState,   \* processTokens: colorState
  operandStack, \* processTokens: operandStack
  textCommands, \* processTokens: textCommands
  imageCommands, \* processTokens: imageCommands
  pathCommands, \* processTokens: pathCommands
  savedCTM,     \* history: the CTM in effect just before each q not yet matched by a Q
  xpc,          \* position of ExtractCommands: "none", "init", "run", "done" or "panic"
  tree,         \* the page tree on disk: for each object its /Type, its /Kids and whether it has a /MediaBox
  walks,        \* the number of StreamPageContents calls made on the parser
  walkErr,      \* outcome of the last loadPageObject: "none", "nil", "err" or "crash"
  offsetTable,  \* fixOS2Table's ot: the offset table of the font
  tablesIn,     \* the table count of the input font
  os2Found,     \* fixOS2Table's hasOS2
  otpc,         \* position in fixOS2Table: "none", "parsed", "counted" or "updated"
  fwNil         \* CompressionMiddleware has failed: the handler's fw and flusher are nil

seqVars == <<req, start, end, base, pageLen, seqn, ret, pc>>
streamVars == <<doc, docState, pageQueue, pfonts, idx, pending, imgCommands, imgIdx,
                fontFileList, fontsDone, emitted>>
handlerVars == <<sink, outCh, encoded, hpc, hasFile, closed, cancelled>>
auxVars == <<pdtpField, log, file>>
fontVars == <<fontBytes, fontPrev, fixes, fixErr>>
chunkVars == <<toSend, sendIdx, written, flushed, spc, broken>>
openVars == <<pdf, pp, perr, opc>>
pureVars == <<fontVars, chunkVars, openVars>>
baseVars == <<seqVars, streamVars, handlerVars, auxVars, pureVars>>
treeVars == <<chain, chainEnd, loaded, tpc>>
valueVars == <<value, text, parsedObj, parsedMeta>>
cmapVars == <<cmap, firstChar, fontMap, cpc>>
interpVars == <<contents, pageHeight, tokens, tokIdx, currentZ, graphicsStack, textState,
                pathState, colorState, operandStack, textCommands, imageCommands,
                pathCommands, savedCTM, xpc>>
walkVars == <<tree, walks, walkErr>>
headVars == <<offsetTable, tablesIn, os2Found, otpc>>
writerVars == <<fwNil>>
unitVars == <<treeVars, valueVars, cmapVars, interpVars, walkVars, headVars, writerVars>>
\* what the page tree steps leave alone
treeOthers == <<baseVars, valueVars, cmapVars, interpVars, walkVars, headVars, writerVars>>
\* what the value parsing steps leave alone
valueOthers == <<baseVars, treeVars, cmapVars, interpVars, walkVars, headVars, writerVars>>
\* what ExtractCMaps leaves alone
cmapOthers == <<baseVars, treeVars, valueVars, interpVars, walkVars, headVars, writerVars>>
\* what ExtractCommands leaves alone
interpOthers == <<baseVars, treeVars, valueVars, cmapVars, walkVars, headVars, writerVars>>
\* what loadPageObject leaves alone
walkOthers == <<seqVars, handlerVars, auxVars, pureVars, treeVars, valueVars, cmapVars,
                interpVars, headVars, writerVars, doc, docState, pfonts, idx, pending, imgCommands, imgIdx,
                fontFileList, fontsDone, emitted>>
vars == <<baseVars, unitVars>>

\* the values of the variables a specification does not use
SeqUnused ==
  /\ req = [start |-> 0, end |-> 0, base |-> 0]
  /\ start = 0 /\ end = 0 /\ base = 0
  /\ pageLen = 0 /\ seqn = <<>> /\ ret = "none" /\ pc = "none"
StreamUnused ==
  /\ doc = <<>> /\ docState = "ok" /\ pageQueue = <<>> /\ pfonts = <<>>
  /\ idx = 0 /\ pending = <<>> /\ imgCommands = <<>> /\ imgIdx = 0
  /\ fontFileList = <<>> /\ fontsDone = {} /\ emitted = <<>>
HandlerUnused ==
  /\ sink = "direct" /\ outCh = <<>> /\ encoded = <<>> /\ hpc = "none"
  /\ hasFile = TRUE /\ closed = FALSE /\ cancelled = FALSE
AuxUnused == pdtpField = <<>> /\ log = {} /\ file = "none"
FontUnused == fontBytes = <<>> /\ fontPrev = <<>> /\ fixes = 0 /\ fixErr = FALSE
ChunkUnused ==
  /\ toSend = <<>> /\ sendIdx = 0 /\ written = <<>> /\ flushed = {}
  /\ spc = "none" /\ broken = FALSE
\* the nil *PDFParser
NoParser == [root |-> 0, xrefTable |-> {}, ok |-> FALSE]
NoPdf ==
  [open |-> TRUE, startxref |-> TRUE, startObj |-> 0, numEntries |-> 0,
   entries |-> <<>>, trailer |-> "none", root |-> 0,
   at |-> "xref", sub |-> <<>>, prev |-> FALSE]
OpenUnused == pdf = NoPdf /\ pp = NoParser /\ perr = FALSE /\ opc = "none"
PureUnused == FontUnused /\ ChunkUnused /\ OpenUnused
\* loadPerPageObject has not run
NotLoaded == [state |-> "none", width |-> 0, height |-> 0]
TreeUnused == chain = <<>> /\ chainEnd = 0 /\ loaded = NotLoaded /\ tpc = "none"
\* no parse function has run
NotParsed == [err |-> FALSE, val |-> [t |-> "none", v |-> 0], pos |-> 0]
ValueUnused ==
  /\ value = [k |-> "none"] /\ text = <<>>
  /\ parsedObj = NotParsed /\ parsedMeta = NotParsed
CMapUnused == cmap = <<>> /\ firstChar = 0 /\ fontMap = <<>> /\ cpc = "none"
\* ExtractCommands has not been called
InterpUnused ==
  /\ contents = <<>> /\ pageHeight = 0 /\ tokens = <<>> /\ tokIdx = 0 /\ currentZ = 0
  /\ graphicsStack = <<>> /\ textState = <<>> /\ pathState = <<>> /\ colorState = <<>>
  /\ operandStack = <<>> /\ textCommands = <<>> /\ imageCommands = <<>>
  /\ pathCommands = <<>> /\ savedCTM = <<>> /\ xpc = "none"
\* the page tree of the document is not looked at
WalkUnused == tree = <<>> /\ walks = 0 /\ walkErr = "none"
\* no offset table is being recomputed
HeadUnused == offsetTable = <<>> /\ tablesIn = 0 /\ os2Found = FALSE /\ otpc = "none"
\* what the offset table steps leave alone
headOthers == <<baseVars, treeVars, valueVars, cmapVars, interpVars, walkVars, writerVars>>
\* CompressionMiddleware has given the handler its writers
WriterUnused == fwNil = FALSE
UnitUnused == TreeUnused /\ ValueUnused /\ CMapUnused /\ InterpUnused /\ WalkUnused /\ HeadUnused /\ WriterUnused

\* ------------------------------------------------------------ pure helpers
\* generateSequence: abs closure
abs(x) == IF x < 0 THEN 0 - x ELSE x

\* less without the distance from base: a faulty comparator
lessByPage(a, b, bs) == a < b

\* generateSequence: the comparator handed to sort.Slice
less(a, b, bs) ==
  IF abs(a - bs) # abs(b - bs) THEN abs(a - bs) < abs(b - bs) ELSE a < b

\* sort.Slice: insertion of x into a slice already ordered by less
RECURSIVE Insert(_, _, _)
Insert(x, s, bs) ==
  IF s = <<>> THEN <<x>>
  ELSE IF less(x, Head(s), bs) THEN <<x>> \o s
  ELSE <<Head(s)>> \o Insert(x, Tail(s), bs)

\* sort.Slice(slice, less)
RECURSIVE SortSlice(_, _)
SortSlice(s, bs) ==
  IF s = <<>> THEN <<>> ELSE Insert(Head(s), SortSlice(Tail(s), bs), bs)

\* generateSequence(start, end, base): (slice, error)
generateSequence(s, e, b) ==
  IF s <= 0 \/ e <= 0 \/ b <= 0 THEN [err |-> TRUE, seq |-> <<>>]
  ELSE IF s > e THEN [err |-> TRUE, seq |-> <<>>]
  ELSE IF b < s \/ b > e THEN [err |-> TRUE, seq |-> <<>>]
  ELSE [err |-> FALSE,
        seq |-> SortSlice([i \in 1..(e - s + 1) |-> s + i - 1], b)]

\* normalizePageNum without "if end < base { end = base }": a faulty variant
normalizeEndNotRaised(s, e, b, n) ==
  LET pl == IF n < 1 THEN 1 ELSE n
      s1 == IF s < 1 THEN 1 ELSE s
      s2 == IF s1 > pl THEN pl ELSE s1
      b1 == IF b < 1 THEN 1 ELSE b
      b2 == IF b1 < s2 THEN s2 ELSE b1
      b3 == IF b2 > pl THEN pl ELSE b2
      e1 == IF e < 1 THEN 1 ELSE e
      e3 == IF e1 > pl THEN pl ELSE e1
  IN  [start |-> s2, end |-> e3, base |-> b3]

\* normalizePageNum without "if base < start { base = start }": a faulty variant
normalizeBaseNotRaised(s, e, b, n) ==
  LET pl == IF n < 1 THEN 1 ELSE n
      s1 == IF s < 1 THEN 1 ELSE s
      s2 == IF s1 > pl THEN pl ELSE s1
      b1 == IF b < 1 THEN 1 ELSE b
      b3 == IF b1 > pl THEN pl ELSE b1
      e1 == IF e < 1 THEN 1 ELSE e
      e2 == IF e1 < b3 THEN b3 ELSE e1
      e3 == IF e2 > pl THEN pl ELSE e2
  IN  [start |-> s2, end |-> e3, base |-> b3]

\* normalizePageNum(start, end, base, pageLen): the statements in source order
normalizePageNum(s, e, b, n) ==
  LET pl == IF n < 1 THEN 1 ELSE n
      s1 == IF s < 1 THEN 1 ELSE s
      s2 == IF s1 > pl THEN pl ELSE s1
      b1 == IF b < 1 THEN 1 ELSE b
      b2 == IF b1 < s2 THEN s2 ELSE b1
      b3 == IF b2 > pl THEN pl ELSE b2
      e1 == IF e < 1 THEN 1 ELSE e
      e2 == IF e1 < b3 THEN b3 ELSE e1
      e3 == IF e2 > pl THEN pl ELSE e2
  IN  [start |-> s2, end |-> e3, base |-> b3]

\* ------------------------------------------ the selection arithmetic alone
ReqVals == DefaultEnd..(SeqMax + 1)

InitSeq ==
  /\ req \in [start : ReqVals, end : ReqVals, base : ReqVals]
  /\ start = req.start /\ end = req.end /\ base = req.base
  /\ pageLen \in 0..SeqMax
  /\ seqn = <<>>
  /\ ret = "none"
  /\ pc = "args"
  /\ doc = <<>> /\ docState = "ok" /\ pageQueue = <<>> /\ pfonts = <<>>
  /\ idx = 0 /\ pending = <<>> /\ imgCommands = <<>> /\ imgIdx = 0
  /\ fontFileList = <<>> /\ fontsDone = {} /\ emitted = <<>>
  /\ sink = "direct" /\ outCh = <<>> /\ encoded = <<>> /\ hpc = "none"
  /\ hasFile = TRUE /\ closed = FALSE /\ cancelled = FALSE
  /\ AuxUnused /\ PureUnused
  /\ UnitUnused

\* StreamPageContents line 283: start, end, base = normalizePageNum(...)
SeqNormalize ==
  /\ pc = "args"
  /\ LET n == normalizePageNum(start, end, base, pageLen)
     IN  start' = n.start /\ end' = n.end /\ base' = n.base
  /\ pc' = "normalized"
  /\ UNCHANGED <<req, pageLen, seqn, ret, streamVars, handlerVars>>
  /\ UNCHANGED auxVars
  /\ UNCHANGED pureVars
  /\ UNCHANGED unitVars

\* a call of generateSequence on the current start, end, base
SeqGenerate ==
  /\ pc \in {"args", "normalized"}
  /\ LET g == generateSequence(start, end, base)
     IN  seqn' = g.seq /\ ret' = IF g.err THEN "err" ELSE "nil"
  /\ pc' = IF pc = "args" THEN "rawdone" ELSE "done"
  /\ UNCHANGED <<req, start, end, base, pageLen, streamVars, handlerVars>>
  /\ UNCHANGED auxVars
  /\ UNCHANGED pureVars
  /\ UNCHANGED unitVars

NextSeq == SeqNormalize \/ SeqGenerate

SpecSeq == InitSeq /\ [][NextSeq]_vars

\* ------------------------------------------------------------ the document
\* A page as the parser sees it.  resErr: ExtractFont fails on the page's
\* resources; contErr: ExtractPageContents fails; xobjErr: ExtractImageRefs
\* fails (/XObject is not a dictionary); fonts: the TrueType fonts of the
\* page's /Font resources with their FontFile2 reference (0: none);
\* texts: the fontID of each text command, in content-stream order;
\* paths: the number of path commands; dos: the image ID of each Do operator,
\* in content-stream order; xobj: the page's /XObject resources.
PageKind(re, ce, xe, fo, tx, pa, ds, xo) ==
  [resErr |-> re, contErr |-> ce, xobjErr |-> xe, fonts |-> fo,
   texts |-> tx, paths |-> pa, dos |-> ds, xobj |-> xo]

NoMap == <<>>

KEmpty == PageKind(FALSE, FALSE, FALSE, NoMap, <<>>, 0, <<>>, NoMap)
KText == PageKind(FALSE, FALSE, FALSE, ("F1" :> 3), <<"F1">>, 1, <<>>, NoMap)
KMixed ==
  PageKind(FALSE, FALSE, FALSE, ("F1" :> 3) @@ ("F2" :> 4), <<"F1", "F2">>, 1,
           <<"Im1", "ImBad", "ImMissing", "Im1">>, ("Im1" :> 1) @@ ("ImBad" :> 2))
KResErr == PageKind(TRUE, FALSE, FALSE, NoMap, <<"F1">>, 0, <<>>, NoMap)
KContErr == PageKind(FALSE, TRUE, FALSE, ("F1" :> 3), <<"F1">>, 1, <<"Im1">>, ("Im1" :> 1))
KXobjErr == PageKind(FALSE, FALSE, TRUE, ("F2" :> 0), <<"F3", "F2">>, 0, <<"Im1">>, NoMap)
\* a page that gives F1 another, unreadable program and F2 a readable
\* stream that is not a font file
KAlt == PageKind(FALSE, FALSE, FALSE, ("F1" :> 4) @@ ("F2" :> 5), <<"F1", "F2">>, 0, <<>>, NoMap)
KBig ==
  PageKind(FALSE, FALSE, FALSE, ("F1" :> 3), <<"F1", "F1", "F1", "F1", "F1">>, 2,
           <<"Im1">>, ("Im1" :> 1))

\* The objects whose stream ExtractStreamByRef can read: image 1, font
\* program 3 and stream 5, which is not a font file.  Objects 2 and 4 exist
\* but their stream cannot be extracted; object 0 is the free entry and is
\* never in the xref table.
GoodStreams == {1, 3, 5}

StreamKinds == {KEmpty, KText, KMixed, KResErr, KContErr, KXobjErr, KAlt}
HandlerKinds == {KBig, KMixed, KAlt}

DocsOf(kinds) == UNION {[1..n -> kinds] : n \in 0..MaxPages}

\* ----------------------------------------------------------------- events
Ev(t, p, k, f, r) == [type |-> t, page |-> p, k |-> k, font |-> f, ref |-> r]
\* &ParsedPage{Page: i}
PageEv(p) == Ev("Page", p, 0, "", 0)
\* &ParsedText{FontID: cmd.FontID, Page: i}; k: position among the page's text commands
TextEv(p, k, f) == Ev("Text", p, k, f, 0)
\* &ParsedPath{Page: i}
PathEv(p, k) == Ev("Path", p, k, "", 0)
\* &ParsedImage{Page: cmd.Page}; k: position of the Do operator in the page
ImageEv(p, k, r) == Ev("Image", p, k, "", r)
\* &ParsedFont{FontID: key}
FontEv(f, r) == Ev("Font", 0, 0, f, r)

\* ------------------------------------------------------ parser operations
\* a Go map read: the zero value when the key is absent
MapGet(m, key) == IF key \in DOMAIN m THEN m[key] ELSE 0

\* a Go map after the writes of w
MapPut(m, w) ==
  [key \in DOMAIN m \cup DOMAIN w |-> IF key \in DOMAIN w THEN w[key] ELSE m[key]]

\* ExtractPage(pageNum)
ExtractPage(queue, n) ==
  IF n <= 0 \/ n > Len(queue) THEN [err |-> TRUE, page |-> KEmpty]
  ELSE [err |-> FALSE, page |-> queue[n]]

\* ExtractFont swallowing a failure to read the resources: a faulty variant
ExtractFontSoft(page, fonts) == [err |-> FALSE, fonts |-> fonts]

\* ExtractFont(page.ResourcesRef): p.fonts[key] = Font{...} for each font
ExtractFont(page, fonts) ==
  IF page.resErr THEN [err |-> TRUE, fonts |-> fonts]
  ELSE [err |-> FALSE, fonts |-> MapPut(fonts, page.fonts)]

\* ExtractPageContents(page.ContentsRef, page.PageHeight): tc, ic, pc, err
ExtractPageContents(page) ==
  IF page.contErr THEN [err |-> TRUE, tc |-> <<>>, ic |-> <<>>, pc |-> 0]
  ELSE [err |-> FALSE, tc |-> page.texts, ic |-> page.dos, pc |-> page.paths]

\* ExtractImageRefs(page.ResourcesRef): imgs, err
ExtractImageRefs(page) ==
  IF page.xobjErr THEN [err |-> TRUE, imgs |-> NoMap]
  ELSE [err |-> FALSE, imgs |-> page.xobj]

\* ExtractImageStream(cmd.ImageRef): succeeds
ExtractImageStream(ref) == ref \in GoodStreams

\* ExtractFontStream failing on every reference: a faulty variant
ExtractFontStreamNever(ref) == FALSE

\* ExtractFontStream(fontRef): succeeds
ExtractFontStream(ref) == ref \in GoodStreams

\* StreamPageContents lines 315-329: the Text events of tc, then the Path events of pc
InlineEvents(i, tc, np) ==
  [k \in 1..Len(tc) |-> TextEv(i, k, tc[k])] \o [k \in 1..np |-> PathEv(i, k)]

\* the placement loop with break in place of continue: a faulty variant
ImageRefCommandsBreak(i, ic, imgs) ==
  LET all == [k \in 1..Len(ic) |-> [page |-> i, k |-> k, ref |-> MapGet(imgs, ic[k])]]
      bad == {k \in 1..Len(ic) : all[k].ref = 0}
      stop == IF bad = {} THEN Len(ic) + 1 ELSE CHOOSE k \in bad : \A m \in bad : k <= m
  IN  SubSeq(all, 1, stop - 1)

\* StreamPageContents lines 335-345: the placements kept from ic
ImageRefCommands(i, ic, imgs) ==
  SelectSeq([k \in 1..Len(ic) |-> [page |-> i, k |-> k, ref |-> MapGet(imgs, ic[k])]],
            LAMBDA c : c.ref # 0)

\* the page loop walking the sequence from its end: a faulty variant
PageAtReversed(s, n) == s[Len(s) - n + 1]

\* for _, i := range sequence
PageAt(s, n) == s[n]

\* the image loop walking the placements from the last one: a faulty variant
CommandAtReversed(cmds, n) == cmds[Len(cmds) - n + 1]

\* for _, cmd := range imgCommands
CommandAt(cmds, n) == cmds[n]

\* a send accepted with the buffer already full: a faulty variant
CanSendOffByOne(q) == Len(q) <= Capacity

\* outCh <- data can proceed
CanSend(q) == Len(q) < Capacity

\* insertData(data)
Emit(ev) ==
  /\ emitted' = Append(emitted, ev)
  /\ IF sink = "chan"
       THEN ~closed /\ CanSend(outCh) /\ outCh' = Append(outCh, ev)
       ELSE outCh' = outCh

NoEmit == UNCHANGED <<emitted, outCh>>

\* StreamPageContents lines 273-288
StreamStart ==
  /\ pc = "start"
  /\ IF docState = "treeErr"
       THEN /\ ret' = "err" /\ pc' = "done"
            /\ UNCHANGED <<start, end, base, pageLen, seqn, pageQueue, idx>>
       ELSE LET n == normalizePageNum(start, end, base, Len(pageQueue \o doc))
                g == generateSequence(n.start, n.end, n.base)
            IN  /\ pageQueue' = pageQueue \o doc
                /\ pageLen' = Len(pageQueue \o doc)
                /\ start' = n.start /\ end' = n.end /\ base' = n.base
                /\ seqn' = g.seq
                /\ idx' = 1
                /\ IF g.err THEN ret' = "err" /\ pc' = "done"
                            ELSE ret' = ret /\ pc' = "page"
  /\ UNCHANGED <<req, doc, docState, pfonts, pending, imgCommands, imgIdx, fontFileList,
                 fontsDone, emitted, handlerVars>>
  /\ UNCHANGED auxVars
  /\ UNCHANGED pureVars
  /\ UNCHANGED unitVars

\* StreamPageContents lines 292-314: one iteration up to the extraction of the contents
PageBegin ==
  /\ pc = "page" /\ idx <= Len(seqn)
  /\ LET i == PageAt(seqn, idx)
         ep == ExtractPage(pageQueue, i)
         ef == ExtractFont(ep.page, pfonts)
         ec == ExtractPageContents(ep.page)
     IN  IF ep.err
           THEN ret' = "err" /\ pc' = "done" /\ NoEmit /\ UNCHANGED <<pfonts, pending>>
           ELSE /\ Emit(PageEv(i))
                /\ IF ef.err
                     THEN ret' = "err" /\ pc' = "done" /\ UNCHANGED <<pfonts, pending>>
                     ELSE /\ pfonts' = ef.fonts
                          /\ IF ec.err
                               THEN ret' = "err" /\ pc' = "done" /\ pending' = pending
                               ELSE /\ pending' = InlineEvents(i, ec.tc, ec.pc)
                                    /\ ret' = ret /\ pc' = "emit"
  /\ UNCHANGED <<req, start, end, base, pageLen, seqn, doc, docState, pageQueue, idx,
                 imgCommands, imgIdx, fontFileList, fontsDone,
                 sink, encoded, hpc, hasFile, closed, cancelled>>
  /\ UNCHANGED auxVars
  /\ UNCHANGED pureVars
  /\ UNCHANGED unitVars

\* StreamPageContents lines 315-329: one insertData call of the Text or Path loop
EmitInline ==
  /\ pc = "emit" /\ pending # <<>>
  /\ LET ev == Head(pending)
     IN  /\ Emit(ev)
         /\ fontFileList' =
              IF ev.type = "Text"
                THEN MapPut(fontFileList, (ev.font :> MapGet(pfonts, ev.font)))
                ELSE fontFileList
  /\ pending' = Tail(pending)
  /\ UNCHANGED <<seqVars, doc, docState, pageQueue, pfonts, idx, imgCommands, imgIdx,
                 fontsDone, sink, encoded, hpc, hasFile, closed, cancelled>>
  /\ UNCHANGED auxVars
  /\ UNCHANGED pureVars
  /\ UNCHANGED unitVars

\* StreamPageContents lines 330-346: the image references of the page, end of the iteration
PageEnd ==
  /\ pc = "emit" /\ pending = <<>>
  /\ LET i == PageAt(seqn, idx)
         page == ExtractPage(pageQueue, i).page
         ir == ExtractImageRefs(page)
         ec == ExtractPageContents(page)
     IN  imgCommands' = imgCommands \o ImageRefCommands(i, ec.ic, ir.imgs)
  /\ idx' = idx + 1
  /\ imgIdx' = 1
  /\ pc' = IF idx + 1 > Len(seqn) THEN "assets" ELSE "page"
  /\ UNCHANGED <<req, start, end, base, pageLen, seqn, ret, doc, docState, pageQueue,
                 pfonts, pending, fontFileList, fontsDone, emitted, handlerVars>>
  /\ UNCHANGED auxVars
  /\ UNCHANGED pureVars
  /\ UNCHANGED unitVars

\* StreamPageContents lines 348-358: one iteration of the deferred image loop
ImageStep ==
  /\ pc = "assets" /\ imgIdx <= Len(imgCommands)
  /\ LET cmd == CommandAt(imgCommands, imgIdx)
     IN  IF ExtractImageStream(cmd.ref)
           THEN Emit(ImageEv(cmd.page, cmd.k, cmd.ref))
           ELSE NoEmit
  /\ imgIdx' = imgIdx + 1
  /\ UNCHANGED <<seqVars, doc, docState, pageQueue, pfonts, idx, pending, imgCommands,
                 fontFileList, fontsDone, sink, encoded, hpc, hasFile, closed, cancelled>>
  /\ UNCHANGED auxVars
  /\ UNCHANGED pureVars
  /\ UNCHANGED unitVars

\* StreamPageContents lines 360-371: one iteration of the font loop (map order)
FontStep ==
  /\ pc = "assets" /\ imgIdx > Len(imgCommands)
  /\ \E key \in DOMAIN fontFileList \ fontsDone :
       /\ IF ExtractFontStream(fontFileList[key])
            THEN Emit(FontEv(key, fontFileList[key]))
            ELSE NoEmit
       /\ fontsDone' = fontsDone \cup {key}
  /\ UNCHANGED <<seqVars, doc, docState, pageQueue, pfonts, idx, pending, imgCommands,
                 imgIdx, fontFileList, sink, encoded, hpc, hasFile, closed, cancelled>>
  /\ UNCHANGED auxVars
  /\ UNCHANGED pureVars
  /\ UNCHANGED unitVars

\* StreamPageContents line 372: return nil
StreamReturn ==
  /\ pc = "assets" /\ imgIdx > Len(imgCommands) /\ fontsDone = DOMAIN fontFileList
  /\ ret' = "nil" /\ pc' = "done"
  /\ UNCHANGED <<req, start, end, base, pageLen, seqn, streamVars, handlerVars>>
  /\ UNCHANGED auxVars
  /\ UNCHANGED pureVars
  /\ UNCHANGED unitVars

StreamNext ==
  StreamStart \/ PageBegin \/ EmitInline \/ PageEnd \/ ImageStep \/ FontStep \/ StreamReturn

\* ------------------------- StreamPageContents called with a recording callback
\* no request handler: there are no handler locals
NoReq == [start |-> 0, end |-> 0, base |-> 0]

StreamReqVals == DefaultEnd..(MaxPages + 1)

InitStream ==
  /\ req = NoReq
  /\ start \in StreamReqVals /\ end \in StreamReqVals /\ base \in StreamReqVals
  /\ pageLen = 0 /\ seqn = <<>> /\ ret = "none" /\ pc = "start"
  /\ doc \in DocsOf(StreamKinds)
  /\ docState \in {"ok", "treeErr"}
  /\ docState = "treeErr" => doc = <<>>
  /\ pageQueue = <<>> /\ pfonts = NoMap
  /\ idx = 0 /\ pending = <<>> /\ imgCommands = <<>> /\ imgIdx = 0
  /\ fontFileList = NoMap /\ fontsDone = {} /\ emitted = <<>>
  /\ sink = "direct" /\ outCh = <<>> /\ encoded = <<>> /\ hpc = "none"
  /\ hasFile = TRUE /\ closed = FALSE /\ cancelled = FALSE
  /\ AuxUnused /\ PureUnused
  /\ UnitUnused

SpecStream == InitStream /\ [][StreamNext]_vars

\* ------------------------------------------------------ font.go: fixOS2Table
\* Bytes are the integers 0..255; a uint32 is kept as its four big-endian
\* bytes, a uint16 as an integer.
\* the Go slice d[a:b]
Slice(d, a, b) == SubSeq(d, a + 1, b)

\* binary.BigEndian.Uint16(d[off:off+2])
Uint16(d, off) == d[off + 1] * 256 + d[off + 2]

\* binary.Write(buf, binary.BigEndian, uint16(v))
PutUint16(v) == <<(v \div 256) % 256, v % 256>>

\* binary.BigEndian.PutUint32(buf, v) for v below 2^31
PutUint32(v) ==
  <<(v \div 16777216) % 256, (v \div 65536) % 256, (v \div 256) % 256, v % 256>>

\* uint32 addition, on the big-endian bytes
Add32(a, b) ==
  LET s4 == a[4] + b[4]
      s3 == a[3] + b[3] + s4 \div 256
      s2 == a[2] + b[2] + s3 \div 256
      s1 == a[1] + b[1] + s2 \div 256
  IN  <<s1 % 256, s2 % 256, s3 % 256, s4 % 256>>

\* tagStringToUint32("OS/2")
TagOS2 == <<79, 83, 47, 50>>
\* the tag of a table other than OS/2: "head"
TagHead == <<104, 101, 97, 100>>

\* buildMinimalOS2Table()
os2Data ==
  <<0, 3, 2, 0, 1, 144, 0, 5, 0, 0, 2, 138, 2, 88, 0, 0, 0, 75, 2, 138, 2, 88,
    0, 0, 0, 175, 0, 50, 1, 2, 0, 0, 2, 11, 6, 3, 2, 2, 0, 0, 0, 0, 0, 0, 0, 0,
    0, 0, 0, 0, 0, 0, 0, 0, 0, 0, 0, 0, 71, 111, 70, 116, 0, 64, 0, 32, 255, 255,
    3, 32, 255, 56, 0, 75, 3, 132, 0, 250, 0, 0, 0, 0, 0, 0, 0, 0>>

\* parseOffsetTable(data), len(data) >= 12
parseOffsetTable(data) ==
  [SfntVersion |-> Slice(data, 0, 4), NumTables |-> Uint16(data, 4),
   SearchRange |-> Uint16(data, 6), EntrySelector |-> Uint16(data, 8),
   RangeShift |-> Uint16(data, 10)]

\* parseTableDirectory(data, num), len(data) >= num * 16
parseTableDirectory(data, num) ==
  [i \in 1..num |->
     LET offset == (i - 1) * 16
     IN  [Tag |-> Slice(data, offset, offset + 4),
          CheckSum |-> Slice(data, offset + 4, offset + 8),
          Offset |-> Slice(data, offset + 8, offset + 12),
          Length |-> Slice(data, offset + 12, offset + 16)]]

\* calcTableChecksum: the loop from byte i, a short last word being zero-filled
RECURSIVE SumWords(_, _, _)
SumWords(data, i, e) ==
  IF i >= e THEN <<0, 0, 0, 0>>
  ELSE Add32([j \in 1..4 |-> IF i + j <= e THEN data[i + j] ELSE 0],
             SumWords(data, i + 4, e))

\* calcTableChecksum(data, offset, length)
calcTableChecksum(data, offset, length) ==
  SumWords(data, offset, IF offset + length > Len(data) THEN Len(data) ELSE offset + length)

\* updateOffsetTable: the loop for (pow2 << 1) <= num
RECURSIVE Pow2Floor(_, _, _)
Pow2Floor(num, pow2, shift) ==
  IF 2 * pow2 <= num THEN Pow2Floor(num, 2 * pow2, shift + 1)
  ELSE [pow2 |-> pow2, shift |-> shift]

\* updateOffsetTable taking the search range for the range shift: a faulty variant
updateOffsetTableNoShift(ot) ==
  LET f == Pow2Floor(ot.NumTables, 1, 0)
      sr == (f.pow2 * 16) % 65536
  IN  [ot EXCEPT !.SearchRange = sr, !.EntrySelector = f.shift % 65536, !.RangeShift = sr]

\* updateOffsetTable(&ot)
updateOffsetTable(ot) ==
  LET f == Pow2Floor(ot.NumTables, 1, 0)
      sr == (f.pow2 * 16) % 65536
  IN  [ot EXCEPT !.SearchRange = sr,
                 !.EntrySelector = f.shift % 65536,
                 !.RangeShift = (((ot.NumTables * 16) % 65536) + 65536 - sr) % 65536]

\* align4(n)
align4(n) == IF n % 4 = 0 THEN n ELSE n + (4 - (n % 4))

\* the bytes of the table directory, record by record
RECURSIVE WriteDirectory(_)
WriteDirectory(dir) ==
  IF dir = <<>> THEN <<>>
  ELSE Head(dir).Tag \o Head(dir).CheckSum \o Head(dir).Offset \o Head(dir).Length
       \o WriteDirectory(Tail(dir))

\* fixOS2Table(fontData) after the two length tests
FixParsed(fontData) ==
  LET ot0 == parseOffsetTable(fontData)
      dir0 == parseTableDirectory(Slice(fontData, 12, Len(fontData)), ot0.NumTables)
      found == {i \in DOMAIN dir0 : dir0[i].Tag = TagOS2}
      hasOS2 == found # {}
      os2Index == IF hasOS2 THEN CHOOSE i \in found : \A j \in found : i <= j
                  ELSE Len(dir0) + 1
      dir1 == IF hasOS2 THEN dir0
              ELSE Append(dir0, [Tag |-> TagOS2, CheckSum |-> <<0, 0, 0, 0>>,
                                 Offset |-> <<0, 0, 0, 0>>, Length |-> <<0, 0, 0, 0>>])
      ot1 == IF hasOS2 THEN ot0
             ELSE [ot0 EXCEPT !.NumTables = (ot0.NumTables + 1) % 65536]
      alignedSize == align4(Len(fontData))
      padCount == alignedSize - Len(fontData)
      data1 == fontData \o [k \in 1..padCount |-> 0] \o os2Data
      dir2 == [dir1 EXCEPT ![os2Index] =
                 [Tag |-> dir1[os2Index].Tag,
                  CheckSum |-> calcTableChecksum(data1, alignedSize, Len(os2Data)),
                  Offset |-> PutUint32(alignedSize),
                  Length |-> PutUint32(Len(os2Data))]]
      ot2 == updateOffsetTable(ot1)
      pos0 == 12 + (ot2.NumTables - 1) * 16
      pos1 == IF pos0 < 0 THEN 12 ELSE pos0
      oldDataPos == IF pos1 > Len(data1) THEN Len(data1) ELSE pos1
  IN  ot2.SfntVersion \o PutUint16(ot2.NumTables) \o PutUint16(ot2.SearchRange)
      \o PutUint16(ot2.EntrySelector) \o PutUint16(ot2.RangeShift)
      \o WriteDirectory(dir2) \o Slice(data1, oldDataPos, Len(data1))

\* fixOS2Table(fontData): ([]byte, error); nil is the empty sequence
fixOS2Table(fontData) ==
  IF Len(fontData) < 12 THEN [err |-> TRUE, data |-> <<>>]
  ELSE IF Len(fontData) < 12 + Uint16(fontData, 4) * 16 THEN [err |-> TRUE, data |-> <<>>]
  ELSE [err |-> FALSE, data |-> FixParsed(fontData)]

\* A font file: the offset table, one directory record per tag, the body.
RECURSIVE DirectoryOf(_, _)
DirectoryOf(tags, at) ==
  IF tags = <<>> THEN <<>>
  ELSE Head(tags) \o <<0, 0, 0, 0>> \o PutUint32(at) \o PutUint32(1)
       \o DirectoryOf(Tail(tags), at)

MakeFont(tags, body) ==
  <<0, 1, 0, 0>> \o PutUint16(Len(tags)) \o <<0, 0, 0, 0, 0, 0>>
  \o DirectoryOf(tags, 12 + 16 * Len(tags)) \o body

\* ----------------------------------------------------- sender.go: the chunks
\* DataTypePage .. DataTypePath
DataType ==
  ("Page" :> 0) @@ ("Text" :> 1) @@ ("Image" :> 2) @@ ("Font" :> 3) @@ ("Path" :> 4)

\* the bytes of a font ID
Ascii == ("" :> <<>>) @@ ("F1" :> <<70, 49>>) @@ ("F2" :> <<70, 50>>) @@ ("F3" :> <<70, 51>>)

\* the decimal digits of a non-negative integer, as bytes
RECURSIVE Itoa(_)
Itoa(n) == IF n < 10 THEN <<48 + n>> ELSE Itoa(n \div 10) \o <<48 + (n % 10)>>

\* a JSON string without characters to escape
Quote(b) == <<34>> \o b \o <<34>>

\* The constant parts of the output of json.Marshal for the five metadata
\* structs; the coordinates, sizes, text, path and colours of an event are
\* not modelled and are written as their zero values.
\* {"width":0,"height":0,"page":
JsonPage ==
  <<123, 34, 119, 105, 100, 116, 104, 34, 58, 48, 44, 34, 104, 101, 105, 103,
    104, 116, 34, 58, 48, 44, 34, 112, 97, 103, 101, 34, 58>>
\* {"x":0,"y":0,"z":0,"text":"","fontID":
JsonTextA ==
  <<123, 34, 120, 34, 58, 48, 44, 34, 121, 34, 58, 48, 44, 34, 122, 34, 58,
    48, 44, 34, 116, 101, 120, 116, 34, 58, 34, 34, 44, 34, 102, 111, 110,
    116, 73, 68, 34, 58>>
\* ,"fontSize":0,"page":
JsonTextB ==
  <<44, 34, 102, 111, 110, 116, 83, 105, 122, 101, 34, 58, 48, 44, 34, 112,
    97, 103, 101, 34, 58>>
\* {"x":0,"y":0,"z":0,"width":0,"height":0,"dw":0,"dh":0,"length":
JsonImageA ==
  <<123, 34, 120, 34, 58, 48, 44, 34, 121, 34, 58, 48, 44, 34, 122, 34, 58,
    48, 44, 34, 119, 105, 100, 116, 104, 34, 58, 48, 44, 34, 104, 101, 105,
    103, 104, 116, 34, 58, 48, 44, 34, 100, 119, 34, 58, 48, 44, 34, 100,
    104, 34, 58, 48, 44, 34, 108, 101, 110, 103, 116, 104, 34, 58>>
\* ,"maskLength":
JsonImageB ==
  <<44, 34, 109, 97, 115, 107, 76, 101, 110, 103, 116, 104, 34, 58>>
\* ,"page":
JsonImageC ==
  <<44, 34, 112, 97, 103, 101, 34, 58>>
\* ,"ext":""}
JsonImageD ==
  <<44, 34, 101, 120, 116, 34, 58, 34, 34, 125>>
\* {"FontID":
JsonFontA ==
  <<123, 34, 70, 111, 110, 116, 73, 68, 34, 58>>
\* ,"Length":
JsonFontB ==
  <<44, 34, 76, 101, 110, 103, 116, 104, 34, 58>>
\* {"x":0,"y":0,"z":0,"width":0,"height":0,"page":
JsonPathA ==
  <<123, 34, 120, 34, 58, 48, 44, 34, 121, 34, 58, 48, 44, 34, 122, 34, 58,
    48, 44, 34, 119, 105, 100, 116, 104, 34, 58, 48, 44, 34, 104, 101, 105,
    103, 104, 116, 34, 58, 48, 44, 34, 112, 97, 103, 101, 34, 58>>
\* ,"path":"","fillColor":"","strokeColor":""}
JsonPathB ==
  <<44, 34, 112, 97, 116, 104, 34, 58, 34, 34, 44, 34, 102, 105, 108, 108,
    67, 111, 108, 111, 114, 34, 58, 34, 34, 44, 34, 115, 116, 114, 111, 107,
    101, 67, 111, 108, 111, 114, 34, 58, 34, 34, 125>>

\* the data and mask of an image stream, and a font program, by object number
ImageData(ref) == IF ref = 1 THEN <<9, 9, 9>> ELSE <<>>
MaskData(ref) == IF ref = 1 THEN <<8>> ELSE <<>>
FontProgram(ref) ==
  CASE ref = 3 -> MakeFont(<<TagHead>>, <<7, 7>>)
    [] ref = 5 -> <<1, 2, 3>>
    [] OTHER -> <<>>

\* sendChunk: NewPageChunk .. NewPathChunk applied to the event d; json is
\* the metadata struct, payload the bytes that follow it
NewChunk(d) ==
  CASE d.type = "Page" ->
         [type |-> DataType["Page"], json |-> [page |-> d.page], payload |-> <<>>]
    [] d.type = "Text" ->
         [type |-> DataType["Text"], json |-> [fontID |-> d.font, page |-> d.page],
          payload |-> <<>>]
    [] d.type = "Image" ->
         [type |-> DataType["Image"],
          json |-> [length |-> Len(ImageData(d.ref)), maskLength |-> Len(MaskData(d.ref)),
                    page |-> d.page],
          payload |-> ImageData(d.ref) \o MaskData(d.ref)]
    [] d.type = "Font" ->
         LET newFont == fixOS2Table(FontProgram(d.ref)).data
         IN  [type |-> DataType["Font"],
              json |-> [FontID |-> d.font, Length |-> Len(newFont)],
              payload |-> newFont]
    [] d.type = "Path" ->
         [type |-> DataType["Path"], json |-> [page |-> d.page], payload |-> <<>>]

\* sendChunk logs a warning for the event d: fixOS2Table failed
FixFails(d) == d.type = "Font" /\ fixOS2Table(FontProgram(d.ref)).err

\* json.Marshal(&p.json) for a chunk of the given type
Marshal(type, j) ==
  CASE type = DataType["Page"] -> JsonPage \o Itoa(j.page) \o <<125>>
    [] type = DataType["Text"] ->
         JsonTextA \o Quote(Ascii[j.fontID]) \o JsonTextB \o Itoa(j.page) \o <<125>>
    [] type = DataType["Image"] ->
         JsonImageA \o Itoa(j.length) \o JsonImageB \o Itoa(j.maskLength)
         \o JsonImageC \o Itoa(j.page) \o JsonImageD
    [] type = DataType["Font"] ->
         JsonFontA \o Quote(Ascii[j.FontID]) \o JsonFontB \o Itoa(j.Length) \o <<125>>
    [] type = DataType["Path"] -> JsonPathA \o Itoa(j.page) \o JsonPathB

\* messageLength taken after the payload was appended: a faulty variant
messageLengthOfData(jsonData, messageData) == Len(messageData)

\* messageLength := uint32(len(jsonData))
messageLength(jsonData, messageData) == Len(jsonData)

\* ------------------------------------------------- the pdtp request header
\* The header is a sequence of tokens: the words start, end, base and zoom,
\* the separators ; and =, the sign - and the decimal digits.
Digits == ("0" :> 0) @@ ("1" :> 1) @@ ("2" :> 2) @@ ("3" :> 3) @@ ("4" :> 4) @@
          ("5" :> 5) @@ ("6" :> 6) @@ ("7" :> 7) @@ ("8" :> 8) @@ ("9" :> 9)

RECURSIVE TrimLeft(_, _)
TrimLeft(s, c) == IF s # <<>> /\ Head(s) = c THEN TrimLeft(Tail(s), c) ELSE s

RECURSIVE TrimRight(_, _)
TrimRight(s, c) ==
  IF s # <<>> /\ s[Len(s)] = c THEN TrimRight(SubSeq(s, 1, Len(s) - 1), c) ELSE s

\* strings.Trim(s, cutset) for a cutset of one character
Trim(s, c) == TrimRight(TrimLeft(s, c), c)

\* strings.Split(s, sep): the pieces between the separators, empty ones kept
RECURSIVE Split(_, _)
Split(s, sep) ==
  IF \A n \in DOMAIN s : s[n] # sep THEN <<s>>
  ELSE LET i == CHOOSE n \in DOMAIN s : s[n] = sep /\ \A m \in 1..(n - 1) : s[m] # sep
       IN  <<SubSeq(s, 1, i - 1)>> \o Split(SubSeq(s, i + 1, Len(s)), sep)

RECURSIVE Decimal(_)
Decimal(ds) ==
  IF ds = <<>> THEN 0 ELSE 10 * Decimal(SubSeq(ds, 1, Len(ds) - 1)) + Digits[ds[Len(ds)]]

\* the value of strconv.ParseInt(s, 10, 32), its error being discarded:
\* 0 on a syntax error, the nearest 32-bit value on a range error
ParseInt(s) ==
  LET neg == s # <<>> /\ Head(s) = "-"
      ds == IF neg THEN Tail(s) ELSE s
  IN  IF ds = <<>> \/ \E n \in DOMAIN ds : ds[n] \notin DOMAIN Digits THEN 0
      ELSE LET v == IF neg THEN 0 - Decimal(ds) ELSE Decimal(ds)
           IN  IF v > 2147483647 THEN 2147483647
               ELSE IF v < 0 - 2147483647 - 1 THEN 0 - 2147483647 - 1 ELSE v

\* parsePDTPField: the loop over the fields, acc holding start, end, base
RECURSIVE ParseFields(_, _)
ParseFields(fields, acc) ==
  IF fields = <<>> THEN acc
  ELSE LET kv == Split(Head(fields), "=")
       IN  IF Len(kv) # 2 THEN [acc EXCEPT !.err = TRUE]
           ELSE CASE kv[1] = <<"start">> ->
                       ParseFields(Tail(fields), [acc EXCEPT !.start = ParseInt(kv[2])])
                  [] kv[1] = <<"end">> ->
                       ParseFields(Tail(fields), [acc EXCEPT !.end = ParseInt(kv[2])])
                  [] kv[1] = <<"base">> ->
                       ParseFields(Tail(fields), [acc EXCEPT !.base = ParseInt(kv[2])])
                  [] OTHER -> [acc EXCEPT !.err = TRUE]

\* parsePDTPField(pdtpField): start, end, base, err
parsePDTPField(h) ==
  LET d == [start |-> 1, end |-> DefaultEnd, base |-> 1, err |-> FALSE]
  IN  IF h = <<>> THEN d ELSE ParseFields(Split(Trim(h, ";"), ";"), d)

\* ------------------------------------------ the request handler's two tasks
\* no header; start=1;end=3;base=2; ; start=2;end=3 ; zoom=1 ; base=2;end ;
\* end=-
HandlerHeaders ==
  { <<>>,
    <<"start", "=", "1", ";", "end", "=", "3", ";", "base", "=", "2", ";">>,
    <<"start", "=", "2", ";", "end", "=", "3">>,
    <<"zoom", "=", "1">>,
    <<"base", "=", "2", ";", "end">>,
    <<"end", "=", "-">> }

LogNoFile == "Invalid request: file parameter is missing"
LogInit == "Parser initialization error"
LogCompression == "Compression error"
LogStream == "Error streaming page contents"
LogFix == "fixOS2Table error"

Init ==
  /\ req = NoReq
  /\ start = 0 /\ end = 0 /\ base = 0
  /\ pageLen = 0 /\ seqn = <<>> /\ ret = "none" /\ pc = "idle"
  /\ doc \in DocsOf(HandlerKinds)
  /\ docState \in {"ok", "openErr", "xrefErr", "treeErr"}
  /\ docState # "ok" => doc = <<>>
  /\ pageQueue = <<>> /\ pfonts = NoMap
  /\ idx = 0 /\ pending = <<>> /\ imgCommands = <<>> /\ imgIdx = 0
  /\ fontFileList = NoMap /\ fontsDone = {} /\ emitted = <<>>
  /\ sink = "chan" /\ outCh = <<>> /\ encoded = <<>> /\ hpc = "init"
  /\ hasFile \in BOOLEAN /\ closed = FALSE /\ cancelled = FALSE
  /\ pdtpField \in HandlerHeaders /\ log = {} /\ file = "none"
  /\ PureUnused
  /\ UnitUnused

\* a receive taking the newest element: a faulty variant
ReceiveNewest(q) == [val |-> q[Len(q)], rest |-> SubSeq(q, 1, Len(q) - 1)]

\* d := <-outCh on a channel that holds an element
Receive(q) == [val |-> Head(q), rest |-> Tail(q)]

\* a handler that gives up only when the open function fails: a faulty variant
InitFailsOnOpenOnly(state) == state = "openErr"

\* pp, err := NewPDFParser(...); if err != nil
InitFails(state) == state \in {"openErr", "xrefErr"}

\* NewPDFProtocolHandler lines 26-29: an error of CompressionMiddleware is
\* logged and the handler goes on
CompressionLog == IF fwNil THEN {LogCompression} ELSE {}

\* NewPDFProtocolHandler lines 21-69: up to the start of the producer task.
\* The error of parsePDTPField is overwritten by that of NewPDFParser and is
\* never tested.  docState "openErr": the open function fails; "xrefErr":
\* NewPDFParser fails on the opened file.  A return after line 44 runs the
\* deferred cancel() and close(outCh).
HandlerBegin ==
  /\ hpc = "init"
  /\ LET f == parsePDTPField(pdtpField)
         r == [start |-> f.start, end |-> f.end, base |-> f.base]
     IN  IF ~hasFile
           THEN /\ hpc' = "returned"
                /\ log' = log \cup {LogNoFile} \cup CompressionLog
                /\ UNCHANGED <<req, start, end, base, pc, closed, cancelled, file>>
           ELSE IF InitFails(docState)
             THEN /\ hpc' = "returned" /\ closed' = TRUE /\ cancelled' = TRUE
                  /\ req' = r
                  /\ file' = IF docState = "openErr" THEN "none" ELSE "open"
                  /\ log' = log \cup {LogInit} \cup CompressionLog
                  /\ UNCHANGED <<start, end, base, pc>>
             ELSE /\ hpc' = "drain" /\ pc' = "start"
                  /\ req' = r
                  /\ start' = f.start /\ end' = f.end /\ base' = f.base
                  /\ file' = "open"
                  /\ log' = log \cup CompressionLog
                  /\ UNCHANGED <<closed, cancelled>>
  /\ UNCHANGED <<pageLen, seqn, ret, streamVars, sink, outCh, encoded, hasFile, pdtpField>>
  /\ UNCHANGED pureVars
  /\ UNCHANGED unitVars

\* NewPDFProtocolHandler lines 62-68: the producer task after
\* StreamPageContents has returned
ProducerExit ==
  /\ pc = "done"
  /\ pc' = "exited"
  /\ log' = IF ret = "err" THEN log \cup {LogStream} ELSE log
  /\ UNCHANGED <<req, start, end, base, pageLen, seqn, ret, streamVars, handlerVars,
                 pdtpField, file>>
  /\ UNCHANGED pureVars
  /\ UNCHANGED unitVars

\* NewPDFProtocolHandler lines 79-82: one iteration of for d := range outCh,
\* sendChunk included; the loop ends on a closed and drained channel and the
\* handler returns.
Drain ==
  /\ hpc = "drain"
  /\ IF outCh # <<>>
       THEN /\ ~fwNil
            /\ encoded' = Append(encoded, Receive(outCh).val)
            /\ outCh' = Receive(outCh).rest
            /\ log' = IF FixFails(Receive(outCh).val) THEN log \cup {LogFix} ELSE log
            /\ UNCHANGED <<hpc, cancelled>>
       ELSE /\ closed
            /\ hpc' = "returned" /\ cancelled' = TRUE
            /\ UNCHANGED <<encoded, outCh, log>>
  /\ UNCHANGED <<seqVars, streamVars, sink, hasFile, closed, pdtpField, file>>
  /\ UNCHANGED pureVars
  /\ UNCHANGED unitVars

\* r.Context() is cancelled: the client went away
Cancel ==
  /\ hpc = "drain" /\ ~cancelled
  /\ cancelled' = TRUE
  /\ UNCHANGED <<seqVars, streamVars, sink, outCh, encoded, hpc, hasFile, closed>>
  /\ UNCHANGED auxVars
  /\ UNCHANGED pureVars
  /\ UNCHANGED unitVars

Next == HandlerBegin \/ Drain \/ Cancel \/ ProducerExit \/ StreamNext

Spec == Init /\ [][Next]_vars

\* ------------------------------------------- fixOS2Table applied repeatedly
TagSeqs == UNION {[1..n -> {TagOS2, TagHead}] : n \in 0..MaxTables}

WholeFonts == {MakeFont(tags, [k \in 1..n |-> 7]) : tags \in TagSeqs, n \in 0..MaxBody}

\* the whole files and their prefixes of 0, 5, 11 and 27 bytes
FontInputs ==
  WholeFonts \cup
  {Slice(f, 0, k) : f \in {g \in WholeFonts : Len(g) >= 27}, k \in {0, 5, 11, 27}}

InitFont ==
  /\ fontBytes \in FontInputs
  /\ fontPrev = <<>> /\ fixes = 0 /\ fixErr = FALSE
  /\ SeqUnused /\ StreamUnused /\ HandlerUnused /\ AuxUnused /\ ChunkUnused /\ OpenUnused
  /\ UnitUnused

\* newFont, err := fixOS2Table(fontData), applied to the previous result
FixFont ==
  /\ fixes < 2 /\ ~fixErr
  /\ LET r == fixOS2Table(fontBytes)
     IN  fontBytes' = r.data /\ fixErr' = r.err
  /\ fontPrev' = fontBytes
  /\ fixes' = fixes + 1
  /\ UNCHANGED <<seqVars, streamVars, handlerVars, auxVars, chunkVars, openVars>>
  /\ UNCHANGED unitVars

NextFont == FixFont

SpecFont == InitFont /\ [][NextFont]_vars

\* ------------------------------------------------ sendChunk, write by write
ChunkEvents ==
  {PageEv(p) : p \in 1..MaxPages} \cup {TextEv(p, 1, "F1") : p \in 1..MaxPages}
  \cup {PathEv(p, 1) : p \in 1..MaxPages} \cup {ImageEv(p, 1, 1) : p \in 1..MaxPages}
  \cup {FontEv("F1", 3), FontEv("F2", 5)}

InitChunk ==
  /\ toSend \in UNION {[1..n -> ChunkEvents] : n \in 1..MaxChunks}
  /\ sendIdx = 1 /\ written = <<>> /\ flushed = {} /\ spc = "type" /\ broken = FALSE
  /\ SeqUnused /\ StreamUnused /\ HandlerUnused /\ AuxUnused /\ FontUnused /\ OpenUnused
  /\ UnitUnused

\* Send without its two Flush calls: a faulty variant
SendNextNoFlush(pos) ==
  CASE pos = "type" -> "length" [] pos = "length" -> "data" [] pos = "data" -> "type"
    [] pos = "flush" -> "type"

\* Send: the statement that follows a successful statement
SendNext(pos) ==
  CASE pos = "type" -> "length" [] pos = "length" -> "data" [] pos = "data" -> "flush"
    [] pos = "flush" -> "type"

\* the chunk built by sendChunk for the current event, and its jsonData
CurChunk == NewChunk(toSend[sendIdx])
CurJson == Marshal(CurChunk.type, CurChunk.json)

\* w.Write(b) inside Send.  On an error Send returns it, sendChunk returns
\* and the drain loop goes on with the next event; a writer that has failed
\* fails every later Write.
Write(b) ==
  \/ /\ ~broken
     /\ written' = written \o b
     /\ spc' = SendNext(spc)
     /\ UNCHANGED <<broken, sendIdx>>
  \/ /\ broken' = TRUE
     /\ spc' = "type"
     /\ sendIdx' = sendIdx + 1
     /\ UNCHANGED written

\* sendChunk up to w.Write([]byte{messageType})
WriteType ==
  /\ spc = "type" /\ sendIdx <= Len(toSend)
  /\ Write(<<CurChunk.type>>)
  /\ log' = IF FixFails(toSend[sendIdx]) THEN log \cup {LogFix} ELSE log
  /\ UNCHANGED <<seqVars, streamVars, handlerVars, pdtpField, file, fontVars, openVars, toSend, flushed>>
  /\ UNCHANGED unitVars

\* w.Write(lengthBuf)
WriteLength ==
  /\ spc = "length"
  /\ Write(PutUint32(messageLength(CurJson, CurJson \o CurChunk.payload)))
  /\ UNCHANGED <<seqVars, streamVars, handlerVars, auxVars, fontVars, openVars, toSend, flushed>>
  /\ UNCHANGED unitVars

\* w.Write(messageData)
WriteData ==
  /\ spc = "data"
  /\ Write(CurJson \o CurChunk.payload)
  /\ UNCHANGED <<seqVars, streamVars, handlerVars, auxVars, fontVars, openVars, toSend, flushed>>
  /\ UNCHANGED unitVars

\* w.Flush(); flusher.Flush(); return nil
Flush ==
  /\ spc = "flush"
  /\ flushed' = flushed \cup {Len(written)}
  /\ spc' = SendNext(spc)
  /\ sendIdx' = sendIdx + 1
  /\ UNCHANGED <<seqVars, streamVars, handlerVars, auxVars, fontVars, openVars, toSend, written, broken>>
  /\ UNCHANGED unitVars

NextChunk == WriteType \/ WriteLength \/ WriteData \/ Flush

SpecChunk == InitChunk /\ [][NextChunk]_vars

\* ------------------------------------------------------------ NewPDFParser
\* The file as NewPDFParser reads it.  open: the open function succeeds;
\* startxref: the keyword and a valid offset are found; startObj, numEntries:
\* the header line of the xref section; entries: the state letter of each
\* entry line before the trailer keyword; trailer: "none" (no trailer
\* dictionary), "noRoot" (no /Root entry), "badRef" (/Root is not "n g R")
\* or "ref"; root: the object number of the /Root reference.
\* at: the line at the startxref offset, "xref" or the "n g obj" of a
\* cross-reference stream; sub: the state letters of the entries of a second
\* subsection between the first one and the trailer keyword (none: <<>>);
\* prev: the trailer has a /Prev entry, the file ends in an incremental update
\* whose section is the one startxref names.
PdfFiles ==
  [open : BOOLEAN, startxref : BOOLEAN, startObj : {0, 1}, numEntries : 0..MaxEntries,
   entries : UNION {[1..n -> {"n", "f"}] : n \in 0..MaxEntries},
   trailer : {"none", "noRoot", "badRef", "ref"}, root : 0..(MaxEntries + 1),
   at : {"xref"}, sub : {<<>>}, prev : {FALSE}]

LogXref == "Failed to parse XRef table"
LogNoRoot == "Root entry not found in PDF root object"
LogRootFormat == "Root reference format error"
LogRootMissing == "Root object number from trailer not found in XRef table"

\* parseXrefTable recording the free entries too: a faulty variant
EveryEntry(state) == TRUE

\* parseXrefTable: if state == "n"
InUse(state) == state = "n"

\* parseXrefTable(file): the object numbers of xrefTable, err.  An entry loop
\* that meets the trailer keyword before numEntries entries consumes it, and
\* the search for the trailer dictionary then finds none.  That search
\* skips every line before the trailer keyword, the lines of f.sub among them,
\* and the trailer is returned as a string in which /Prev is never looked up.
parseXrefTable(f) ==
  IF ~f.startxref \/ f.at # "xref" THEN [err |-> TRUE, xrefTable |-> {}]
  ELSE IF f.numEntries > Len(f.entries) \/ f.trailer = "none"
    THEN [err |-> TRUE, xrefTable |-> {}]
  ELSE [err |-> FALSE,
        xrefTable |-> {f.startObj + i : i \in {k \in 0..(f.numEntries - 1) :
                                                  InUse(f.entries[k + 1])}}]

\* NewPDFParser(open, logger): parser, error, the state of the file handle
\* and the messages logged
NewPDFParser(f) ==
  LET x == parseXrefTable(f)
      fail(h, msgs) == [pp |-> NoParser, err |-> TRUE, file |-> h, log |-> msgs]
  IN  IF ~f.open THEN fail("none", {})
      ELSE IF x.err THEN fail("open", {LogXref})
      ELSE IF f.trailer = "noRoot" THEN fail("open", {LogNoRoot})
      ELSE IF f.trailer = "badRef" THEN fail("open", {LogRootFormat})
      ELSE IF f.root \notin x.xrefTable THEN fail("open", {LogRootMissing})
      ELSE [pp |-> [root |-> f.root, xrefTable |-> x.xrefTable, ok |-> TRUE],
            err |-> FALSE, file |-> "open", log |-> {}]

InitOpen ==
  /\ pdf \in PdfFiles
  /\ pp = NoParser /\ perr = FALSE /\ opc = "init"
  /\ SeqUnused /\ StreamUnused /\ HandlerUnused /\ AuxUnused /\ FontUnused /\ ChunkUnused
  /\ UnitUnused

\* pp, err := NewPDFParser(open, logger)
OpenDocument ==
  /\ opc = "init"
  /\ LET r == NewPDFParser(pdf)
     IN  pp' = r.pp /\ perr' = r.err /\ file' = r.file /\ log' = log \cup r.log
  /\ opc' = "opened"
  /\ UNCHANGED <<seqVars, streamVars, handlerVars, pdtpField, fontVars, chunkVars, pdf>>
  /\ UNCHANGED unitVars

\* p.Close(), which only the holder of a parser can call
ParserClose ==
  /\ opc = "opened" /\ pp.ok
  /\ file' = "closed"
  /\ opc' = "closed"
  /\ UNCHANGED <<seqVars, streamVars, handlerVars, pdtpField, log, fontVars, chunkVars,
                 pdf, pp, perr>>
  /\ UNCHANGED unitVars

NextOpen == OpenDocument \/ ParserClose

SpecOpen == InitOpen /\ [][NextOpen]_vars

\* ------------------------------------------------------------- GetMediaBox
\* parseNumber: a token without "." is an int, one with "." a float64
IntNum(v) == [t |-> "int", v |-> v]
RealNum(v) == [t |-> "real", v |-> v]

\* findTarget(node, "MediaBox"): found and the array found
NoBox == [found |-> FALSE, arr |-> <<>>]
Box(arr) == [found |-> TRUE, arr |-> arr]
Boxes ==
  { NoBox,
    Box(<<IntNum(0), IntNum(0), IntNum(612), IntNum(792)>>),
    Box(<<IntNum(10), IntNum(20), IntNum(110), IntNum(220)>>),
    Box(<<IntNum(0), IntNum(0), RealNum(595), RealNum(842)>>),
    Box(<<IntNum(0), IntNum(0), IntNum(612)>>) }

\* The number of nested GetMediaBox calls the goroutine stack holds: more
\* than any chain without a cycle needs.
StackDepth == MaxChain + 2

\* findTargetRef(node k, "Parent"): 0 when the key is absent
ParentOf(c, e, k) == IF k < Len(c) THEN k + 1 ELSE e

RECURSIVE GetMediaBox(_, _, _, _)
\* p.GetMediaBox(node k) at recursion depth d over the chain c ending in e:
\* "ok" and the []int, "err", or "crash" when the recursion exhausts the stack
GetMediaBox(c, e, k, d) ==
  IF d > StackDepth THEN [state |-> "crash", box |-> <<>>]
  ELSE IF c[k].found
    THEN IF \A i \in DOMAIN c[k].arr : c[k].arr[i].t = "int"
           THEN [state |-> "ok", box |-> [i \in DOMAIN c[k].arr |-> c[k].arr[i].v]]
           ELSE [state |-> "err", box |-> <<>>]
  ELSE IF ParentOf(c, e, k) = 0 THEN [state |-> "err", box |-> <<>>]
  ELSE IF ParentOf(c, e, k) > Len(c) THEN [state |-> "err", box |-> <<>>]
  ELSE GetMediaBox(c, e, ParentOf(c, e, k), d + 1)

\* loadPerPageObject: pageWidth, pageHeight
pageSize(box) == [width |-> box[3] - box[1], height |-> box[4] - box[2]]

\* loadPerPageObject(ptRef), case "Page", for the first node of the chain
loadPerPageObject(c, e) ==
  LET m == GetMediaBox(c, e, 1, 1)
  IN  IF m.state # "ok" THEN [state |-> m.state, width |-> 0, height |-> 0]
      ELSE IF Len(m.box) < 4 THEN [state |-> "err", width |-> 0, height |-> 0]
      ELSE [state |-> "ok", width |-> pageSize(m.box).width,
            height |-> pageSize(m.box).height]

InitTree ==
  /\ chain \in UNION {[1..n -> Boxes] : n \in 1..MaxChain}
  /\ chainEnd \in 0..(Len(chain) + 1)
  /\ loaded = NotLoaded /\ tpc = "init"
  /\ SeqUnused /\ StreamUnused /\ HandlerUnused /\ AuxUnused /\ PureUnused
  /\ ValueUnused /\ CMapUnused /\ InterpUnused /\ WalkUnused /\ HeadUnused /\ WriterUnused

\* err = p.loadPerPageObject(kid)
LoadPage ==
  /\ tpc = "init"
  /\ loaded' = loadPerPageObject(chain, chainEnd)
  /\ tpc' = "loaded"
  /\ UNCHANGED <<treeOthers, chain, chainEnd>>

NextTree == LoadPage

SpecTree == InitTree /\ [][NextTree]_vars

\* ---------------------------------------------------------------- object.go
\* Text is a sequence of one-character strings; a cursor is the number of
\* characters already read.  A parsed value carries its Go dynamic type.
GoString(cs) == [t |-> "string", v |-> cs]
GoInt(n) == [t |-> "int", v |-> n]
\* a float64, held as the number of hundredths it denotes
GoFloat(h) == [t |-> "float64", v |-> h]
GoBool(b) == [t |-> "bool", v |-> b]
GoNil == [t |-> "nil", v |-> 0]
GoMap(m) == [t |-> "map", v |-> m]
GoSlice(a) == [t |-> "slice", v |-> a]

\* the result of a parse function: error, value, cursor after the value
Failed(p) == [err |-> TRUE, val |-> GoNil, pos |-> p]
Parsed(v, p) == [err |-> FALSE, val |-> v, pos |-> p]

\* unicode.IsSpace, for the white space of the modelled texts
isWhiteSpace(ch) == ch \in {" ", "\n"}
\* strings.ContainsRune("()<>[]{}/%", ch)
isDelimiter(ch) == ch \in {"(", ")", "<", ">", "[", "]", "{", "}", "/", "%"}
\* unicode.IsDigit
IsDigit(ch) == ch \in DOMAIN Digits

RECURSIVE skipSpaces(_, _)
\* skipSpaces(r): the cursor after the white space at the cursor
skipSpaces(t, p) ==
  IF p < Len(t) /\ isWhiteSpace(t[p + 1]) THEN skipSpaces(t, p + 1) ELSE p

RECURSIVE TokenEnd(_, _)
\* the loop of parseName, parseNumberOrRef and parseKeyword: the cursor at
\* the next delimiter, white space or end of text
TokenEnd(t, p) ==
  IF p < Len(t) /\ ~isDelimiter(t[p + 1]) /\ ~isWhiteSpace(t[p + 1])
    THEN TokenEnd(t, p + 1) ELSE p

\* parseName(r), the "/" already read
parseName(t, p) == Parsed(GoString(SubSeq(t, p + 1, TokenEnd(t, p))), TokenEnd(t, p))

RECURSIVE LiteralLoop(_, _, _, _)
\* parseLiteralString(r), the "(" already read: its loop with depth and buf
LiteralLoop(t, p, depth, buf) ==
  IF p >= Len(t) THEN Failed(p)
  ELSE LET ch == t[p + 1]
       IN  IF ch = "(" THEN LiteralLoop(t, p + 1, depth + 1, Append(buf, ch))
           ELSE IF ch = ")"
             THEN IF depth = 1 THEN Parsed(GoString(buf), p + 1)
                  ELSE LiteralLoop(t, p + 1, depth - 1, Append(buf, ch))
           ELSE IF ch = "\\"
             THEN IF p + 1 >= Len(t) THEN Failed(p + 1)
                  ELSE LiteralLoop(t, p + 2, depth, Append(buf, t[p + 2]))
           ELSE LiteralLoop(t, p + 1, depth, Append(buf, ch))

parseLiteralString(t, p) == LiteralLoop(t, p, 1, <<>>)

RECURSIVE HexLoop(_, _, _)
\* parseHexString(r), the "<" already read: the characters up to ">"
HexLoop(t, p, buf) ==
  IF p >= Len(t) THEN Failed(p)
  ELSE IF t[p + 1] = ">" THEN Parsed(GoString(buf), p + 1)
  ELSE HexLoop(t, p + 1, Append(buf, t[p + 1]))

parseHexString(t, p) == HexLoop(t, p, <<>>)

\* strconv.Atoi(s): an optional sign and at least one digit
Atoi(s) ==
  LET signed == s # <<>> /\ Head(s) \in {"-", "+"}
      ds == IF signed THEN Tail(s) ELSE s
  IN  IF ds = <<>> \/ \E n \in DOMAIN ds : ~IsDigit(ds[n]) THEN [err |-> TRUE, v |-> 0]
      ELSE [err |-> FALSE, v |-> IF signed /\ Head(s) = "-" THEN 0 - Decimal(ds) ELSE Decimal(ds)]

\* strconv.ParseFloat(s, 64) for a token with "." and at most two decimals:
\* the value in hundredths
ParseFloat(s) ==
  LET signed == s # <<>> /\ Head(s) \in {"-", "+"}
      ds == IF signed THEN Tail(s) ELSE s
      dot == CHOOSE n \in DOMAIN ds : ds[n] = "." /\ \A m \in 1..(n - 1) : ds[m] # "."
      whole == SubSeq(ds, 1, dot - 1)
      frac == SubSeq(ds, dot + 1, Len(ds))
      h == 100 * Decimal(whole) + (IF Len(frac) = 0 THEN 0
                                   ELSE IF Len(frac) = 1 THEN 10 * Decimal(frac)
                                   ELSE Decimal(frac))
  IN  IF (\A n \in DOMAIN ds : ds[n] # ".") \/ Len(frac) > 2
         \/ (whole = <<>> /\ frac = <<>>)
         \/ (\E n \in DOMAIN whole : ~IsDigit(whole[n]))
         \/ (\E n \in DOMAIN frac : ~IsDigit(frac[n]))
        THEN [err |-> TRUE, v |-> 0]
        ELSE [err |-> FALSE, v |-> IF signed /\ Head(s) = "-" THEN 0 - h ELSE h]

\* parseNumber(s): a float64 when s contains ".", an int otherwise
parseNumber(s) ==
  IF \E n \in DOMAIN s : s[n] = "."
    THEN [err |-> ParseFloat(s).err, val |-> GoFloat(ParseFloat(s).v)]
    ELSE [err |-> Atoi(s).err, val |-> GoInt(Atoi(s).v)]

\* the decimal digits of an integer, as characters
DigitChars == <<"0", "1", "2", "3", "4", "5", "6", "7", "8", "9">>
RECURSIVE NatText(_)
NatText(n) == IF n < 10 THEN <<DigitChars[n + 1]>> ELSE NatText(n \div 10) \o <<DigitChars[(n % 10) + 1]>>
IntText(n) == IF n < 0 THEN <<"-">> \o NatText(0 - n) ELSE NatText(n)

\* fmt.Sprintf("%v", x) for an int, and for a float64 given in hundredths:
\* the shortest decimal that denotes it
NumText(x) ==
  IF x.t = "int" THEN IntText(x.v)
  ELSE LET a == IF x.v < 0 THEN 0 - x.v ELSE x.v
           sign == IF x.v < 0 THEN <<"-">> ELSE <<>>
       IN  IF a % 100 = 0 THEN sign \o NatText(a \div 100)
           ELSE IF a % 10 = 0 THEN sign \o NatText(a \div 100) \o <<".">> \o NatText((a % 100) \div 10)
           ELSE sign \o NatText(a \div 100) \o <<".">> \o NatText((a % 100) \div 10) \o NatText(a % 10)

\* parseNumberOrRef: if ch == 'R'
IsRefKeyword(ch) == ch = "R"

\* parseNumberOrRef(r): a number, or "n g R" when an integer and R follow
parseNumberOrRef(t, p) ==
  LET e1 == TokenEnd(t, p)
      num1 == parseNumber(SubSeq(t, p + 1, e1))
      q == skipSpaces(t, e1)
  IN  IF num1.err THEN Failed(e1)
      ELSE IF q >= Len(t) THEN Parsed(num1.val, q)
      ELSE IF IsDigit(t[q + 1])
        THEN LET e2 == TokenEnd(t, q + 1)
                 token2 == SubSeq(t, q + 1, e2)
                 q2 == skipSpaces(t, e2)
             IN  IF q2 >= Len(t) THEN Parsed(num1.val, e1)
                 ELSE IF IsRefKeyword(t[q2 + 1])
                   THEN IF parseNumber(token2).err THEN Failed(q2 + 1)
                        ELSE Parsed(GoString(NumText(num1.val) \o <<" ">>
                                             \o NumText(parseNumber(token2).val) \o <<" ", "R">>),
                                    q2 + 1)
                 ELSE Parsed(num1.val, e1)
      ELSE Parsed(num1.val, e1)

\* parseKeyword(r)
parseKeyword(t, p) ==
  LET token == SubSeq(t, p + 1, TokenEnd(t, p))
  IN  IF token = <<"n", "u", "l", "l">> THEN Parsed(GoNil, TokenEnd(t, p))
      ELSE IF token = <<"t", "r", "u", "e">> THEN Parsed(GoBool(TRUE), TokenEnd(t, p))
      ELSE IF token = <<"f", "a", "l", "s", "e">> THEN Parsed(GoBool(FALSE), TokenEnd(t, p))
      ELSE Parsed(GoString(token), TokenEnd(t, p))

\* dict[key] = val on a map held as a function
MapSet(m, k, v) == [x \in DOMAIN m \cup {k} |-> IF x = k THEN v ELSE m[x]]
EmptyMap == [x \in {} |-> GoNil]

RECURSIVE parseObject(_, _)
RECURSIVE DictLoop(_, _, _)
RECURSIVE ArrayLoop(_, _, _)

\* parseDict(r), the "<<" already read: its loop, dict holding the entries
DictLoop(t, p, dict) ==
  LET q == skipSpaces(t, p)
  IN  IF q >= Len(t) THEN Failed(q)
      ELSE IF t[q + 1] = ">"
        THEN IF q + 1 >= Len(t) THEN Failed(q + 1)
             ELSE IF t[q + 2] = ">" THEN Parsed(GoMap(dict), q + 2)
             ELSE Failed(q + 2)
      ELSE IF t[q + 1] = "/"
        THEN LET key == parseName(t, q + 1)
                 val == parseObject(t, key.pos)
             IN  IF val.err THEN Failed(val.pos)
                 ELSE DictLoop(t, val.pos, MapSet(dict, key.val.v, val.val))
      ELSE Failed(q + 1)

\* parseArray(r), the "[" already read: its loop, arr holding the elements
ArrayLoop(t, p, arr) ==
  LET q == skipSpaces(t, p)
  IN  IF q >= Len(t) THEN Failed(q)
      ELSE IF t[q + 1] = "]" THEN Parsed(GoSlice(arr), q + 1)
      ELSE LET obj == parseObject(t, q)
           IN  IF obj.err THEN Failed(obj.pos)
               ELSE ArrayLoop(t, obj.pos, Append(arr, obj.val))

\* parseObject(r)
parseObject(t, p) ==
  LET q == skipSpaces(t, p)
  IN  IF q >= Len(t) THEN Failed(q)
      ELSE LET ch == t[q + 1]
           IN  IF ch = "<"
                 THEN IF q + 1 >= Len(t) THEN Failed(q + 1)
                      ELSE IF t[q + 2] = "<" THEN DictLoop(t, q + 2, EmptyMap)
                      ELSE parseHexString(t, q + 1)
               ELSE IF ch = "(" THEN parseLiteralString(t, q + 1)
               ELSE IF ch = "/" THEN parseName(t, q + 1)
               ELSE IF ch = "[" THEN ArrayLoop(t, q + 1, <<>>)
               ELSE IF IsDigit(ch) \/ ch \in {"-", "+", "."} THEN parseNumberOrRef(t, q)
               ELSE parseKeyword(t, q)

\* ------------------------------------------------- parseMetadata (parser)
\* The parser's own value parser: it cuts a dictionary or array body into
\* tokens (readNextToken) and parses each token as a value of its own.
RECURSIVE TrimSpaceLeft(_)
TrimSpaceLeft(cs) == IF cs # <<>> /\ isWhiteSpace(Head(cs)) THEN TrimSpaceLeft(Tail(cs)) ELSE cs
RECURSIVE TrimSpaceRight(_)
TrimSpaceRight(cs) ==
  IF cs # <<>> /\ isWhiteSpace(cs[Len(cs)]) THEN TrimSpaceRight(SubSeq(cs, 1, Len(cs) - 1)) ELSE cs
\* strings.TrimSpace
TrimSpace(cs) == TrimSpaceRight(TrimSpaceLeft(cs))

HasPrefix(cs, pre) == Len(cs) >= Len(pre) /\ SubSeq(cs, 1, Len(pre)) = pre
HasSuffix(cs, suf) == Len(cs) >= Len(suf) /\ SubSeq(cs, Len(cs) - Len(suf) + 1, Len(cs)) = suf

RECURSIVE Fields(_)
\* strings.Fields: the maximal runs of characters that are not white space
Fields(cs) ==
  LET b == TrimSpaceLeft(cs)
      e == CHOOSE n \in 0..Len(b) :
             /\ \A m \in 1..n : ~isWhiteSpace(b[m])
             /\ (n = Len(b) \/ isWhiteSpace(b[n + 1]))
  IN  IF b = <<>> THEN <<>> ELSE <<SubSeq(b, 1, e)>> \o Fields(SubSeq(b, e + 1, Len(b)))

\* the reference test of parseMetadata: three fields, two integers and R
IsRef(cs) ==
  /\ Len(Fields(cs)) = 3
  /\ ~Atoi(Fields(cs)[1]).err /\ ~Atoi(Fields(cs)[2]).err
  /\ Fields(cs)[3] = <<"R">>

RECURSIVE readNextToken(_, _, _, _, _, _)
\* readNextToken(reader) from cursor p, with its locals token,
\* inLiteralString, nestingDict and nestingArray: the token, the cursor
\* after it, and eof when the text ends before any token.  A bufio.Reader
\* takes back one rune only, so "UnreadRune(); UnreadRune()" takes back one.
readNextToken(t, p, token, lit, nd, na) ==
  IF p >= Len(t)
    THEN [tok |-> token, pos |-> p, eof |-> token = <<>>]
  ELSE
    LET r == t[p + 1]
        top == nd = 0 /\ na = 0
        more == p + 1 < Len(t)
    IN  IF r = ")" /\ lit /\ ~(r = "(" /\ top)
          THEN [tok |-> Append(token, r), pos |-> p + 1, eof |-> FALSE]
        ELSE IF lit \/ (r = "(" /\ top)
          THEN readNextToken(t, p + 1, Append(token, r), TRUE, nd, na)
        ELSE IF r = "<" /\ more /\ t[p + 2] = "<"
          THEN IF token # <<>> /\ top
                 THEN [tok |-> token, pos |-> p + 1, eof |-> FALSE]
                 ELSE readNextToken(t, p + 2, token \o <<"<", "<">>, lit, nd + 1, na)
        ELSE IF r = ">" /\ more /\ t[p + 2] = ">"
          THEN IF nd - 1 = 0 /\ na = 0
                 THEN [tok |-> token \o <<">", ">">>, pos |-> p + 2, eof |-> FALSE]
                 ELSE readNextToken(t, p + 2, token \o <<">", ">">>, lit, nd - 1, na)
        ELSE IF r = "["
          THEN IF token # <<>> /\ top
                 THEN [tok |-> token, pos |-> p, eof |-> FALSE]
                 ELSE readNextToken(t, p + 1, Append(token, r), lit, nd, na + 1)
        ELSE IF r = "]"
          THEN IF na - 1 = 0 /\ nd = 0
                 THEN [tok |-> Append(token, r), pos |-> p + 1, eof |-> FALSE]
                 ELSE readNextToken(t, p + 1, Append(token, r), lit, nd, na - 1)
        ELSE IF isWhiteSpace(r) /\ top
          THEN IF token # <<>> THEN [tok |-> token, pos |-> p + 1, eof |-> FALSE]
               ELSE readNextToken(t, p + 1, token, lit, nd, na)
        ELSE IF r = "/" /\ top /\ token # <<>>
          THEN [tok |-> token, pos |-> p, eof |-> FALSE]
        ELSE readNextToken(t, p + 1, Append(token, r), lit, nd, na)

RECURSIVE parseMetadata(_)
RECURSIVE DictTokens(_, _, _, _)
RECURSIVE ArrayTokens(_, _, _)

\* parseDict(dictString): the loop over the tokens of the body
DictTokens(t, p, key, dict) ==
  LET n == readNextToken(t, p, <<>>, FALSE, 0, 0)
      tk == TrimSpace(n.tok)
  IN  IF n.eof THEN (IF key # <<>> THEN Failed(p) ELSE Parsed(GoMap(dict), n.pos))
      ELSE IF tk = <<>> THEN DictTokens(t, n.pos, key, dict)
      ELSE IF key = <<>>
        THEN IF ~HasPrefix(tk, <<"/">>) THEN Failed(n.pos)
             ELSE DictTokens(t, n.pos, tk, dict)
      ELSE IF parseMetadata(tk).err THEN Failed(n.pos)
      ELSE DictTokens(t, n.pos, <<>>, MapSet(dict, key, parseMetadata(tk).val))

\* parseArray(arrayString): the loop over the tokens of the body
ArrayTokens(t, p, arr) ==
  LET n == readNextToken(t, p, <<>>, FALSE, 0, 0)
      tk == TrimSpace(n.tok)
  IN  IF n.eof THEN Parsed(GoSlice(arr), n.pos)
      ELSE IF tk = <<>> THEN ArrayTokens(t, n.pos, arr)
      ELSE IF parseMetadata(tk).err THEN Failed(n.pos)
      ELSE ArrayTokens(t, n.pos, Append(arr, parseMetadata(tk).val))

\* parseMetadata(objectString): names and references stay the text they are
parseMetadata(objectString) ==
  LET o == TrimSpace(objectString)
  IN  IF o = <<>> THEN Failed(0)
      ELSE IF HasPrefix(o, <<"<", "<">>) /\ HasSuffix(o, <<">", ">">>)
        THEN DictTokens(TrimSpace(SubSeq(o, 3, Len(o) - 2)), 0, <<>>, EmptyMap)
      ELSE IF HasPrefix(o, <<"[">>) /\ HasSuffix(o, <<"]">>)
        THEN ArrayTokens(TrimSpace(SubSeq(o, 2, Len(o) - 1)), 0, <<>>)
      ELSE IF ~Atoi(o).err THEN Parsed(GoInt(Atoi(o).v), Len(o))
      ELSE IF ~ParseFloat(o).err THEN Parsed(GoFloat(ParseFloat(o).v), Len(o))
      ELSE IF o = <<"t", "r", "u", "e">> THEN Parsed(GoBool(TRUE), Len(o))
      ELSE IF o = <<"f", "a", "l", "s", "e">> THEN Parsed(GoBool(FALSE), Len(o))
      ELSE IF o = <<"n", "u", "l", "l">> THEN Parsed(GoNil, Len(o))
      ELSE IF HasPrefix(o, <<"/">>) THEN Parsed(GoString(o), Len(o))
      ELSE IF IsRef(o) THEN Parsed(GoString(o), Len(o))
      ELSE Failed(0)

\* ---------------------------------------------------------------- PDF values
\* The values of the PDF data model and their text in a file.
VName(cs) == [k |-> "name", cs |-> cs]
VString(cs) == [k |-> "string", cs |-> cs]
VInt(n) == [k |-> "int", n |-> n]
\* a real, held as the number of hundredths it denotes
VReal(h) == [k |-> "real", h |-> h]
VRef(num, gen) == [k |-> "ref", num |-> num, gen |-> gen]
VBool(b) == [k |-> "bool", b |-> b]
VArray(es) == [k |-> "array", es |-> es]
\* a dictionary: its keys in file order and the value of each
VDict(keys, vals) == [k |-> "dict", keys |-> keys, vals |-> vals]

Atoms ==
  { VName(<<"T">>), VName(<<"R", "x">>),
    VInt(0), VInt(12), VInt(0 - 7),
    VReal(150), VReal(0 - 25),
    VString(<<"a", " ", "b">>), VString(<<"(", "\\">>),
    VRef(1, 0), VRef(12, 3),
    VBool(TRUE), VBool(FALSE) }

ArraysOver(S) == {VArray(es) : es \in UNION {[1..n -> S] : n \in 0..MaxElems}}
DictsOver(S) ==
  {VDict(<<>>, <<>>)}
    \cup {VDict(<<<<"A">>>>, <<a>>) : a \in S}
    \cup {VDict(<<<<"A">>, <<"B", "c">>>>, <<a, b>>) : a \in S, b \in {VInt(12), VRef(1, 0), VName(<<"T">>)}}
Flat == Atoms \cup ArraysOver(Atoms) \cup DictsOver(Atoms)
\* << /Type /Pages /Kids [3 0 R] >>
PagesDict ==
  VDict(<<<<"T", "y", "p", "e">>, <<"K", "i", "d", "s">>>>,
        <<VName(<<"P", "a", "g", "e", "s">>), VArray(<<VRef(3, 0)>>)>>)
Values ==
  Flat \cup {VArray(<<a>>) : a \in Flat} \cup {VDict(<<<<"K">>>>, <<a>>) : a \in Flat}
    \cup {PagesDict}

RECURSIVE Escaped(_)
\* a literal string's characters with "(", ")" and "\" escaped
Escaped(cs) ==
  IF cs = <<>> THEN <<>>
  ELSE (IF Head(cs) \in {"(", ")", "\\"} THEN <<"\\", Head(cs)>> ELSE <<Head(cs)>>)
       \o Escaped(Tail(cs))

RECURSIVE Serialize(_)
RECURSIVE SerializeAll(_)
RECURSIVE SerializeEntries(_, _)
\* the elements of an array, separated by one space
SerializeAll(es) ==
  IF es = <<>> THEN <<>>
  ELSE IF Len(es) = 1 THEN Serialize(es[1])
  ELSE Serialize(es[1]) \o <<" ">> \o SerializeAll(Tail(es))
\* the entries of a dictionary, each followed by one space
SerializeEntries(keys, vals) ==
  IF keys = <<>> THEN <<>>
  ELSE <<"/">> \o Head(keys) \o <<" ">> \o Serialize(Head(vals)) \o <<" ">>
       \o SerializeEntries(Tail(keys), Tail(vals))
\* the text of a value in a PDF file
Serialize(x) ==
  CASE x.k = "name" -> <<"/">> \o x.cs
    [] x.k = "string" -> <<"(">> \o Escaped(x.cs) \o <<")">>
    [] x.k = "int" -> IntText(x.n)
    [] x.k = "real" ->
         LET a == IF x.h < 0 THEN 0 - x.h ELSE x.h
         IN  (IF x.h < 0 THEN <<"-">> ELSE <<>>) \o NatText(a \div 100) \o <<".">>
             \o NatText((a % 100) \div 10) \o NatText(a % 10)
    [] x.k = "ref" -> IntText(x.num) \o <<" ">> \o IntText(x.gen) \o <<" ", "R">>
    [] x.k = "bool" -> IF x.b THEN <<"t", "r", "u", "e">> ELSE <<"f", "a", "l", "s", "e">>
    [] x.k = "array" -> <<"[">> \o SerializeAll(x.es) \o <<"]">>
    [] x.k = "dict" -> <<"<", "<", " ">> \o SerializeEntries(x.keys, x.vals) \o <<">", ">">>

RECURSIVE Rep(_)
\* the Go value that stands for a PDF value: names without their slash,
\* strings decoded, references as "n g R"
Rep(x) ==
  CASE x.k = "name" -> GoString(x.cs)
    [] x.k = "string" -> GoString(x.cs)
    [] x.k = "int" -> GoInt(x.n)
    [] x.k = "real" -> GoFloat(x.h)
    [] x.k = "ref" -> GoString(IntText(x.num) \o <<" ">> \o IntText(x.gen) \o <<" ", "R">>)
    [] x.k = "bool" -> GoBool(x.b)
    [] x.k = "array" -> GoSlice([i \in DOMAIN x.es |-> Rep(x.es[i])])
    [] x.k = "dict" ->
         GoMap([key \in {x.keys[i] : i \in DOMAIN x.keys} |->
                  Rep(x.vals[CHOOSE i \in DOMAIN x.keys : x.keys[i] = key])])

InitValue ==
  /\ value \in Values
  /\ text = Serialize(value)
  /\ parsedObj = NotParsed /\ parsedMeta = NotParsed
  /\ SeqUnused /\ StreamUnused /\ HandlerUnused /\ AuxUnused /\ PureUnused
  /\ TreeUnused /\ CMapUnused /\ InterpUnused /\ WalkUnused /\ HeadUnused /\ WriterUnused

\* obj, err := parseObject(reader)
ParseObject ==
  /\ text # <<>> /\ parsedObj = NotParsed
  /\ parsedObj' = parseObject(text, 0)
  /\ UNCHANGED <<valueOthers, value, text, parsedMeta>>

\* parsedObject, err := parseMetadata(objectString)
ParseMetadata ==
  /\ text # <<>> /\ parsedMeta = NotParsed
  /\ parsedMeta' = parseMetadata(text)
  /\ UNCHANGED <<valueOthers, value, text, parsedObj>>

NextValue == ParseObject \/ ParseMetadata

SpecValue == InitValue /\ [][NextValue]_vars

\* ------------------------------------------------------------ ExtractCMaps
\* The CMap text is a sequence of tokens: the count before beginbfrange, a
\* space, a line break, beginbfrange, endbfrange, and the bfrange triples
\* <start><end><value>, given by their numbers.  Tokens that follow one
\* another without a space or a line break touch in the text.
Tok(k) == [k |-> k, lo |-> 0, hi |-> 0, val |-> 0]
Triple(lo, hi, val) == [k |-> "triple", lo |-> lo, hi |-> hi, val |-> val]
TCount == Tok("n")
TSpace == Tok("sp")
TLine == Tok("nl")
TBegin == Tok("begin")
TEnd == Tok("end")
IsTriple(tk) == tk.k = "triple"
IsSpaceToken(tk) == tk.k \in {"sp", "nl"}

\* the lines a modelled block is made of
Triples == {Triple(65, 67, 97), Triple(32, 32, 65), Triple(5, 4, 48)}

\* A block: counted (the count precedes beginbfrange), spaced (white space
\* precedes endbfrange), and its lines.
Blocks ==
  [counted : BOOLEAN, spaced : BOOLEAN,
   lines : UNION {[1..n -> Triples] : n \in 1..MaxLines}]

RECURSIVE LinesText(_)
LinesText(ls) ==
  IF ls = <<>> THEN <<>>
  ELSE IF Len(ls) = 1 THEN <<ls[1]>>
  ELSE <<ls[1], TLine>> \o LinesText(Tail(ls))

\* the text of one block
BlockText(b) ==
  (IF b.counted THEN <<TCount, TSpace>> ELSE <<>>) \o <<TBegin, TLine>> \o LinesText(b.lines)
    \o (IF b.spaced THEN <<TLine>> ELSE <<>>) \o <<TEnd, TLine>>

RECURSIVE CMapText(_)
\* the text of a CMap: its blocks one after the other
CMapText(bs) == IF bs = <<>> THEN <<>> ELSE BlockText(Head(bs)) \o CMapText(Tail(bs))

\* the least element of a non-empty set of numbers
Least(S) == CHOOSE x \in S : \A y \in S : x <= y

RECURSIVE FindAllSubmatch(_, _)
\* re.FindAllStringSubmatch for `\d+\s+beginbfrange\s+(.*?)\s+endbfrange`
\* from token i on: the captured groups, concatenated with "\n" before each
FindAllSubmatch(ts, i) ==
  LET starts == {b \in i..(Len(ts) - 4) :
                   /\ ts[b] = TCount /\ IsSpaceToken(ts[b + 1]) /\ ts[b + 2] = TBegin
                   /\ IsSpaceToken(ts[b + 3])
                   /\ \E j \in (b + 4)..(Len(ts) - 1) :
                        IsSpaceToken(ts[j]) /\ ts[j + 1] = TEnd}
  IN  IF starts = {} THEN <<>>
      ELSE LET b == Least(starts)
               j == Least({k \in (b + 4)..(Len(ts) - 1) :
                             IsSpaceToken(ts[k]) /\ ts[k + 1] = TEnd})
           IN  <<TLine>> \o SubSeq(ts, b + 4, j - 1) \o FindAllSubmatch(ts, j + 2)

RECURSIVE SplitLines(_)
\* strings.Split(substrings, "\n")
SplitLines(ts) ==
  IF \A n \in DOMAIN ts : ts[n] # TLine THEN <<ts>>
  ELSE LET n == Least({m \in DOMAIN ts : ts[m] = TLine})
       IN  <<SubSeq(ts, 1, n - 1)>> \o SplitLines(SubSeq(ts, n + 1, Len(ts)))

RECURSIVE TrimTokens(_)
\* strings.TrimSpace(cmapLine)
TrimTokens(l) ==
  IF l # <<>> /\ IsSpaceToken(Head(l)) THEN TrimTokens(Tail(l))
  ELSE IF l # <<>> /\ IsSpaceToken(l[Len(l)]) THEN TrimTokens(SubSeq(l, 1, Len(l) - 1))
  ELSE l

\* byte(x) for an int16 x
ByteOf(x) == ((x % 256) + 256) % 256

\* a key that restarts at firstChar on every line: a faulty variant
MapIndexPerLine(first, cnt, i) == ByteOf(first + i)

\* mapIndex := byte(int16(firstCharNumber) + cnt), cnt having counted the i
\* mappings of this line and those of the lines before
MapIndex(first, cnt, i) == ByteOf(first + cnt + i)

RECURSIVE CMapLines(_, _, _, _)
\* the loop over cmapsLines, cnt and values being carried along; a line
\* other than one <start><end><value> has not three parts or does not parse
CMapLines(ls, first, cnt, vals) ==
  IF ls = <<>> THEN vals
  ELSE LET l == TrimTokens(Head(ls))
       IN  IF Len(l) # 1 \/ ~IsTriple(l[1]) THEN CMapLines(Tail(ls), first, cnt, vals)
           ELSE LET n == IF l[1].hi - l[1].lo < 0 THEN 0 ELSE l[1].hi - l[1].lo + 1
                    keys == {MapIndex(first, cnt, i) : i \in 0..(n - 1)}
                    new == [k \in keys |->
                              l[1].val + Least({i \in 0..(n - 1) :
                                  MapIndex(first, cnt, i) = k
                                  /\ \A i2 \in (i + 1)..(n - 1) : MapIndex(first, cnt, i2) # k})]
                IN  CMapLines(Tail(ls), first, cnt + n,
                              [k \in DOMAIN vals \cup keys |->
                                 IF k \in keys THEN new[k] ELSE vals[k]])

\* ExtractCMaps(cmapsString, firstCharNumber): byte -> code point
ExtractCMaps(ts, first) ==
  CMapLines(SplitLines(FindAllSubmatch(ts, 1)), first, 0, <<>>)

\* the /FirstChar values of the modelled fonts
FirstChars == {0, 32, 255}

InitCMap ==
  /\ cmap \in UNION {[1..n -> Blocks] : n \in 1..2}
  /\ firstChar \in FirstChars
  /\ fontMap = <<>> /\ cpc = "init"
  /\ SeqUnused /\ StreamUnused /\ HandlerUnused /\ AuxUnused /\ PureUnused
  /\ TreeUnused /\ ValueUnused /\ InterpUnused /\ WalkUnused /\ HeadUnused /\ WriterUnused

\* cmaps, err = p.ExtractCMaps(string(toUnicodeStreamBytes), int8(firstCharInt))
ExtractToUnicode ==
  /\ cpc = "init"
  /\ fontMap' = ExtractCMaps(CMapText(cmap), firstChar)
  /\ cpc' = "extracted"
  /\ UNCHANGED <<cmapOthers, cmap, firstChar>>

NextCMap == ExtractToUnicode

SpecCMap == InitCMap /\ [][NextCMap]_vars

\* ------------------------------------------------------------------ claims
Dist(p, b) == IF p >= b THEN p - b ELSE b - p

Range(s) == {s[n] : n \in DOMAIN s}

Clamp(x, lo, hi) == IF x < lo THEN lo ELSE IF x > hi THEN hi ELSE x

\* C1: for 1 <= start <= base <= end, generateSequence returns no error and
\* the integers start..end, each once, ordered by ascending |page - base|
\* with ties broken by ascending page number.
C1_SequenceByDistance ==
  (pc \in {"rawdone", "done"} /\ 1 <= start /\ start <= base /\ base <= end) =>
    /\ ret = "nil"
    /\ Len(seqn) = end - start + 1
    /\ Range(seqn) = start..end
    /\ \A n \in 1..(Len(seqn) - 1) :
         \/ Dist(seqn[n], base) < Dist(seqn[n + 1], base)
         \/ Dist(seqn[n], base) = Dist(seqn[n + 1], base) /\ seqn[n] < seqn[n + 1]

\* C1 witness: a call with the base strictly inside the range, whose result
\* alternates around the base.
C1_Witness ==
  /\ pc = "rawdone" /\ ret = "nil"
  /\ start = 1 /\ base = 3 /\ end = 5
  /\ seqn = <<3, 2, 4, 1, 5>>

\* C10 as claimed: start and end are clamped into [1, pageCount] independently
\* of base, base is then clamped into [start, end], and the pages visited are
\* exactly start..end.
C10_EndIndependentOfBase ==
  (pc = "done" /\ pageLen >= 1) =>
    LET s == Clamp(req.start, 1, pageLen)
        e == Clamp(req.end, 1, pageLen)
    IN  /\ start = s /\ end = e /\ base = Clamp(req.base, s, e)
        /\ Range(seqn) = s..e

\* C10 amended: start is clamped into [1, pageCount], base into
\* [start, pageCount] and end into [base, pageCount], so that
\* 1 <= start <= base <= end <= pageCount; the sequence is generated without
\* error and the pages visited are exactly start..end.
C10_NormalizedSelection ==
  (pc = "done" /\ pageLen >= 1) =>
    /\ start = Clamp(req.start, 1, pageLen)
    /\ base = Clamp(req.base, start, pageLen)
    /\ end = Clamp(req.end, base, pageLen)
    /\ 1 <= start /\ start <= base /\ base <= end /\ end <= pageLen
    /\ ret = "nil"
    /\ Range(seqn) = start..end /\ Len(seqn) = end - start + 1

\* C10 witness: a request whose end lies below its base; end is raised to base.
C10_Witness ==
  /\ pc = "done" /\ pageLen = 5
  /\ req.start = 1 /\ req.end = 2 /\ req.base = 4
  /\ start = 1 /\ base = 4 /\ end = 4
  /\ Range(seqn) = 1..4

IsPage(e) == e.type = "Page"

PageEvents(s) == SelectSeq(s, IsPage)

Stage(e) == CASE e.type \in {"Page", "Text", "Path"} -> 1
              [] e.type = "Image" -> 2
              [] e.type = "Font" -> 3

PosIn(s, p) == CHOOSE n \in DOMAIN s : s[n] = p

\* C2: every Image event follows every Page, Text and Path event, the Image
\* events appear in the order their placements were discovered (page
\* visitation order, then content-stream order), and every Font event
\* follows every Image event.
C2_DeferredAssetsOrder ==
  \A i, j \in DOMAIN emitted :
    i < j =>
      /\ Stage(emitted[i]) <= Stage(emitted[j])
      /\ (emitted[i].type = "Image" /\ emitted[j].type = "Image") =>
           \/ PosIn(seqn, emitted[i].page) < PosIn(seqn, emitted[j].page)
           \/ emitted[i].page = emitted[j].page /\ emitted[i].k < emitted[j].k

\* C2 witness: a finished stream with two images of one page, an image of a
\* page with a smaller number visited later, and a font.
C2_Witness ==
  /\ pc = "done" /\ ret = "nil"
  /\ \E i, j, m, f \in DOMAIN emitted :
       /\ i < j /\ j < m /\ m < f
       /\ emitted[i].type = "Image" /\ emitted[j].type = "Image"
       /\ emitted[m].type = "Image" /\ emitted[f].type = "Font"
       /\ emitted[i].page = emitted[j].page
       /\ emitted[m].page < emitted[j].page

\* C3: the Page events are those of the visitation sequence, in that order
\* and one per page; every Text and Path event of a page lies between the
\* Page event of that page and the next Page event.
C3_PageFramesItsEvents ==
  LET pg == PageEvents(emitted)
  IN  /\ Len(pg) <= Len(seqn)
      /\ \A n \in DOMAIN pg : pg[n].page = seqn[n]
      /\ ret = "nil" => Len(pg) = Len(seqn)
      /\ \A j \in DOMAIN emitted :
           emitted[j].type \in {"Text", "Path"} =>
             \E i \in 1..(j - 1) :
               /\ emitted[i] = PageEv(emitted[j].page)
               /\ \A m \in (i + 1)..j : emitted[m].type # "Page"

\* C3 witness: a finished stream over three pages starting at the middle
\* one, with text on the first and the last page visited.
C3_Witness ==
  /\ pc = "done" /\ ret = "nil"
  /\ seqn = <<2, 1, 3>>
  /\ \E i, j \in DOMAIN emitted :
       /\ emitted[i].type = "Text" /\ emitted[i].page = 2
       /\ emitted[j].type = "Path" /\ emitted[j].page = 3

\* the page visited n-th has had its fonts and contents extracted
Extracted(n) == n <= Len(PageEvents(emitted))

\* font resolution or content extraction failed for the page visited n-th
PageFailed(n) ==
  Extracted(n) /\ (pageQueue[seqn[n]].resErr \/ pageQueue[seqn[n]].contErr)

\* image-resource resolution failed for the page visited n-th
ImageRefsFailed(n) == n < idx /\ pageQueue[seqn[n]].xobjErr

\* C4 as claimed: a failure of font resolution, content extraction or
\* image-resource resolution for a page makes StreamPageContents return an
\* error.
C4_AnyPageFailureAborts ==
  pc = "done" =>
    \A n \in DOMAIN seqn :
      (PageFailed(n) \/ ImageRefsFailed(n)) => ret = "err"

\* C4 amended: a failure of font resolution or content extraction for a page
\* makes StreamPageContents return an error and nothing is emitted after the
\* Page event of that page; a failure of image-resource resolution is logged,
\* the page's placements are dropped and the stream goes on.
C4_PageFailureAborts ==
  /\ \A n \in DOMAIN seqn :
       PageFailed(n) =>
         /\ ret = "err" /\ pc = "done"
         /\ emitted[Len(emitted)] = PageEv(seqn[n])
  /\ \A n \in DOMAIN seqn :
       ImageRefsFailed(n) =>
         /\ \A j \in DOMAIN emitted :
              emitted[j].type = "Image" => emitted[j].page # seqn[n]
         /\ (pc = "done" /\ \A m \in DOMAIN seqn : ~PageFailed(m)) => ret = "nil"

\* C4 witness: the stream went on after a page whose image resources could
\* not be resolved and was then aborted by a page whose contents could not
\* be extracted.
C4_Witness ==
  /\ pc = "done" /\ ret = "err" /\ idx = 2
  /\ ImageRefsFailed(1)
  /\ pageQueue[seqn[2]].contErr
  /\ Len(emitted) > 2

RECURSIVE Flatten(_)
Flatten(ss) == IF ss = <<>> THEN <<>> ELSE Head(ss) \o Flatten(Tail(ss))

\* the Page, Text and Path events of the pages of s, page after page
ExpectedInline(s) ==
  Flatten([n \in DOMAIN s |->
    LET p == doc[s[n]]
    IN  <<PageEv(s[n])>> \o [k \in 1..Len(p.texts) |-> TextEv(s[n], k, p.texts[k])]
                         \o [k \in 1..p.paths |-> PathEv(s[n], k)]])

\* the Image events of the placements whose XObject exists and can be read
ExpectedImages(s) ==
  Flatten([n \in DOMAIN s |->
    LET p == doc[s[n]]
        all == [k \in 1..Len(p.dos) |-> ImageEv(s[n], k, MapGet(p.xobj, p.dos[k]))]
    IN  SelectSeq(all, LAMBDA e : e.ref \in GoodStreams)])

\* the font program referenced for font f after the pages of s: that of the
\* resources in force at the last text that uses f
RECURSIVE FontRefAfter(_, _, _, _)
FontRefAfter(s, f, known, ref) ==
  IF s = <<>> THEN ref
  ELSE LET p == doc[Head(s)]
           k2 == IF f \in DOMAIN p.fonts THEN p.fonts[f] ELSE known
       IN  FontRefAfter(Tail(s), f, k2, IF f \in Range(p.texts) THEN k2 ELSE ref)

ExpectedFonts(s) ==
  {FontEv(f, FontRefAfter(s, f, 0, 0)) :
     f \in {g \in UNION {Range(doc[s[n]].texts) : n \in DOMAIN s} :
              FontRefAfter(s, g, 0, 0) \in GoodStreams}}

AssetFailuresOnly ==
  /\ docState = "ok" /\ seqn # <<>>
  /\ \A n \in DOMAIN seqn :
       /\ seqn[n] \in DOMAIN doc
       /\ LET p == doc[seqn[n]] IN ~p.resErr /\ ~p.contErr /\ ~p.xobjErr

\* C5: when the only failures are a Do naming an absent XObject, an image
\* stream or a font stream that cannot be extracted, StreamPageContents
\* returns nil and every other Page, Text, Path, Image and Font event is
\* emitted.
C5_AssetFailureSkipsOnlyAsset ==
  (pc = "done" /\ AssetFailuresOnly) =>
    LET head == ExpectedInline(seqn) \o ExpectedImages(seqn)
        tail == SubSeq(emitted, Len(head) + 1, Len(emitted))
    IN  /\ ret = "nil"
        /\ Len(emitted) >= Len(head)
        /\ SubSeq(emitted, 1, Len(head)) = head
        /\ Range(tail) = ExpectedFonts(seqn)
        /\ Len(tail) = Cardinality(ExpectedFonts(seqn))

\* C5 witness: a finished stream over a page with an absent XObject, an
\* unreadable image and an unreadable font program, whose other image and
\* font were emitted.
C5_Witness ==
  /\ pc = "done" /\ AssetFailuresOnly
  /\ \E n \in DOMAIN seqn : doc[seqn[n]] = KMixed
  /\ \E j \in DOMAIN emitted : emitted[j].type = "Image" /\ emitted[j].k = 4
  /\ \E j \in DOMAIN emitted : emitted[j] = FontEv("F1", 3)
  /\ \A j \in DOMAIN emitted : emitted[j].font # "F2" \/ emitted[j].type = "Text"

\* C6: every event passed to the emit callback is dequeued and handed to
\* the encoder once, in emission order: the events encoded so far followed
\* by the events still queued are the events emitted so far.
C6_QueuePreservesEvents == emitted = encoded \o outCh

\* C6 witness: the producer has returned and all its events, more than the
\* queue holds at once, have been encoded.
C6_Witness ==
  /\ pc = "done" /\ ret = "nil"
  /\ Len(encoded) > Capacity /\ encoded = emitted

\* the producer stands at an insertData call
AtEmit ==
  \/ pc = "page" /\ idx <= Len(seqn) /\ ~ExtractPage(pageQueue, PageAt(seqn, idx)).err
  \/ pc = "emit" /\ pending # <<>>
  \/ pc = "assets" /\ imgIdx <= Len(imgCommands)
       /\ ExtractImageStream(CommandAt(imgCommands, imgIdx).ref)

\* C7: the queue never holds more than 20 events; while it holds 20 no
\* event is emitted, and below 20 a producer standing at an emit call can
\* take its step.
C7_BoundedQueueBlocksProducer ==
  /\ [](Len(outCh) <= Capacity)
  /\ [][Len(outCh) = Capacity => emitted' = emitted]_vars
  /\ []((AtEmit /\ Len(outCh) < Capacity) => ENABLED StreamNext)

\* C7 witness: the queue is full while the producer has a further event of
\* the page to emit.
C7_Witness == Len(outCh) = Capacity /\ pc = "emit" /\ pending # <<>>

\* C8: once StreamPageContents has returned and the queue is drained, the
\* handler has returned or its drain loop can take a step towards it.
C8_HandlerReturns ==
  (pc = "done" /\ outCh = <<>>) => (hpc = "returned" \/ ENABLED Drain)

\* C9: once the request is cancelled no further page is started.
C9_NoPageAfterCancel ==
  [][cancelled => Len(PageEvents(emitted')) = Len(PageEvents(emitted))]_vars

\* C11: a request without a pdtp header visits every page 1..pageCount of
\* the document, in ascending page order.
C11_DefaultVisitsEveryPage ==
  (pdtpField = <<>> /\ docState = "ok" /\ Len(doc) >= 1 /\ pc \notin {"idle", "start"}) =>
    seqn = [n \in 1..Len(doc) |-> n]

\* C12: when parsePDTPField returns an error for the header, the handler
\* opens no document, starts no producer task and hands no event to the
\* encoder.
C12_HeaderErrorRejectsRequest ==
  (hasFile /\ parsePDTPField(pdtpField).err /\ hpc # "init") =>
    /\ file = "none"
    /\ pc = "idle"
    /\ encoded = <<>>

\* C20: when fixOS2Table has succeeded on a font, applying it to its own
\* output returns that output unchanged.
C20_FixIsIdempotent ==
  (fixes = 2 /\ ~fixErr) => fontBytes = fontPrev

\* the unsigned integer held by four big-endian bytes
BigEndian(b) == ((b[1] * 256 + b[2]) * 256 + b[3]) * 256 + b[4]

\* the number of payload bytes that belong to the event d
PayloadLen(d) ==
  CASE d.type = "Image" -> Len(ImageData(d.ref)) + Len(MaskData(d.ref))
    [] d.type = "Font" -> Len(fixOS2Table(FontProgram(d.ref)).data)
    [] OTHER -> 0

\* the bytes b are one chunk of the event d: type byte, length of the JSON
\* metadata alone, the metadata, the payload announced by the metadata
IsChunkOf(b, d) ==
  /\ Len(b) >= 5
  /\ b[1] = CASE d.type = "Page" -> 0 [] d.type = "Text" -> 1 [] d.type = "Image" -> 2
              [] d.type = "Font" -> 3 [] d.type = "Path" -> 4
  /\ LET n == BigEndian(SubSeq(b, 2, 5))
         meta == NewChunk(d).json
         payload == SubSeq(b, 6 + n, Len(b))
     IN  /\ 5 + n <= Len(b)
         /\ SubSeq(b, 6, 5 + n) = Marshal(b[1], meta)
         /\ CASE d.type = "Image" ->
                   /\ payload = ImageData(d.ref) \o MaskData(d.ref)
                   /\ meta.length = Len(ImageData(d.ref))
                   /\ meta.maskLength = Len(MaskData(d.ref))
              [] d.type = "Font" ->
                   /\ Len(payload) = meta.Length
                   /\ payload = fixOS2Table(FontProgram(d.ref)).data
              [] OTHER -> payload = <<>>

\* the bytes b are the chunks of the events ds, one per event and in order
RECURSIVE AreChunksOf(_, _)
AreChunksOf(b, ds) ==
  IF ds = <<>> THEN b = <<>>
  ELSE /\ Len(b) >= 5
       /\ LET n == 5 + BigEndian(SubSeq(b, 2, 5)) + PayloadLen(Head(ds))
          IN  /\ n <= Len(b)
              /\ IsChunkOf(SubSeq(b, 1, n), Head(ds))
              /\ AreChunksOf(SubSeq(b, n + 1, Len(b)), Tail(ds))

\* C13: between two Send calls on a writer that has not failed, the bytes
\* written are one chunk per event sent, each laid out as type byte, 4-byte
\* big-endian length of the JSON metadata alone, the metadata, and the
\* payload (image then mask bytes, or font bytes, or nothing).
C13_ChunkLayout ==
  (spc = "type" /\ ~broken) => AreChunksOf(written, SubSeq(toSend, 1, sendIdx - 1))

\* C13 witness: an Image chunk and a Font chunk were sent.
C13_Witness ==
  /\ spc = "type" /\ ~broken /\ sendIdx = 3
  /\ toSend[1].type = "Image" /\ toSend[2] = FontEv("F1", 3)
  /\ Len(written) > 134

\* C14: the first byte of a chunk is written only when everything written
\* before it has been flushed, and at every flush the bytes written are a
\* whole number of chunks.
C14_FlushAfterEachChunk ==
  /\ [][(spc = "type" /\ written' # written) =>
          (written = <<>> \/ Len(written) \in flushed)]_vars
  /\ [](\A n \in flushed :
          \E k \in 0..Len(toSend) :
            AreChunksOf(SubSeq(written, 1, n), SubSeq(toSend, 1, k)))

\* C14 witness: two chunks were written and the transport was flushed after
\* each of them.
C14_Witness ==
  /\ sendIdx = 3 /\ ~broken /\ Cardinality(flushed) = 2 /\ Len(written) \in flushed

\* C16: while sendChunk handles a font whose repair by fixOS2Table fails it
\* writes no byte: no Font chunk is written for that font.
C16_UnrepairableFontSkipped ==
  [][(sendIdx <= Len(toSend) /\ FixFails(toSend[sendIdx])) => written' = written]_vars

IsText(e) == e.type = "Text"

C17_FailedOpenClosesFile ==
  (opc # "init" /\ pdf.open /\ perr) => (pp = NoParser /\ file = "closed")

\* the in-use entries of the xref section of the file f
InUseEntries(f) ==
  {f.startObj + k - 1 : k \in {n \in DOMAIN f.entries : n <= f.numEntries /\ f.entries[n] = "n"}}

\* C19: NewPDFParser returns an error and no parser whenever the object
\* number of the trailer's /Root reference is not an in-use entry of the xref
\* section, and the root of a parser it returns is in the parser's xref table.
C19_RootMustBeInUse ==
  opc # "init" =>
    /\ pdf.root \notin InUseEntries(pdf) => (perr /\ pp = NoParser)
    /\ ~perr => (pp.ok /\ pp.root = pdf.root /\ pp.root \in pp.xrefTable
                 /\ pp.xrefTable = InUseEntries(pdf))

\* C19 witness: a well-formed file whose /Root names an entry of the xref
\* section that is marked free; NewPDFParser has failed on the root check.
C19_Witness ==
  /\ opc = "opened" /\ perr /\ pdf.open /\ pdf.startxref /\ pdf.trailer = "ref"
  /\ pdf.numEntries = Len(pdf.entries)
  /\ \E k \in DOMAIN pdf.entries : pdf.root = pdf.startObj + k - 1 /\ pdf.entries[k] = "f"
  /\ \E k \in DOMAIN pdf.entries : pdf.entries[k] = "n"
  /\ LogRootMissing \in log

\* C18: a request without a file parameter, or whose document cannot be
\* established (open, xref/trailer, catalog or page tree), gets no chunk at
\* all, and the failure is logged: by the handler before it returns, or by
\* the producer task when StreamPageContents has returned its error.
C18_SetupFailureWritesNothing ==
  (~hasFile \/ docState # "ok") =>
    /\ encoded = <<>> /\ outCh = <<>> /\ emitted = <<>>
    /\ (~hasFile /\ hpc # "init") => (LogNoFile \in log /\ pc = "idle")
    /\ (hasFile /\ docState \in {"openErr", "xrefErr"} /\ hpc # "init") =>
         (LogInit \in log /\ pc = "idle" /\ hpc = "returned")
    /\ (hasFile /\ docState = "treeErr" /\ pc \in {"done", "exited"}) => ret = "err"
    /\ (hasFile /\ docState = "treeErr" /\ pc = "exited") => LogStream \in log

\* C18 witness: the page tree cannot be read; StreamPageContents has returned
\* its error, the producer task has logged it and nothing was written.
C18_Witness ==
  /\ hasFile /\ docState = "treeErr" /\ pc = "exited"
  /\ LogStream \in log /\ encoded = <<>>

\* the nodes of the chain that loadPerPageObject can visit from the page
\* node: all of them, whatever the last /Parent refers to
BoxedNodes(c) == {k \in DOMAIN c : c[k].found}
NearestBox(c) == c[CHOOSE k \in BoxedNodes(c) : \A j \in BoxedNodes(c) : k <= j].arr

\* C21: a page takes the MediaBox of the nearest node of its /Parent chain
\* that has one, its width and height being box[2]-box[0] and box[3]-box[1];
\* when no node of the chain has a MediaBox the load fails with an error.
C21_InheritedMediaBox ==
  tpc = "loaded" =>
    /\ (BoxedNodes(chain) # {} /\ Len(NearestBox(chain)) = 4) =>
         /\ loaded.state = "ok"
         /\ loaded.width = NearestBox(chain)[3].v - NearestBox(chain)[1].v
         /\ loaded.height = NearestBox(chain)[4].v - NearestBox(chain)[2].v
    /\ BoxedNodes(chain) = {} => loaded.state = "err"

\* what GetMediaBox does provide of C21: a nearest box of four integers is
\* taken, and a chain without a box that ends (in a node without /Parent or
\* in a missing object) is an error
C21_IntegerBoxOnEndingChain ==
  tpc = "loaded" =>
    /\ (BoxedNodes(chain) # {} /\ Len(NearestBox(chain)) = 4
        /\ \A i \in 1..4 : NearestBox(chain)[i].t = "int") =>
         /\ loaded.state = "ok"
         /\ loaded.width = NearestBox(chain)[3].v - NearestBox(chain)[1].v
         /\ loaded.height = NearestBox(chain)[4].v - NearestBox(chain)[2].v
    /\ (BoxedNodes(chain) = {} /\ chainEnd \notin 1..Len(chain)) => loaded.state = "err"

\* C22: parsing the text of a value built from dictionaries, arrays, names,
\* integers, reals, strings, references and booleans yields that value, with
\* either of the two value parsers.
C22_RoundTrip ==
  /\ parsedObj # NotParsed => (~parsedObj.err /\ parsedObj.val = Rep(value))
  /\ parsedMeta # NotParsed => (~parsedMeta.err /\ parsedMeta.val = Rep(value))

\* what holds of C22: parseObject consumes exactly the text of the value and
\* yields the value
C22_ParseObjectRoundTrip ==
  parsedObj # NotParsed =>
    (~parsedObj.err /\ parsedObj.val = Rep(value) /\ parsedObj.pos = Len(text))

\* the lines of the blocks of a CMap, in file order
RECURSIVE AllLines(_)
AllLines(bs) == IF bs = <<>> THEN <<>> ELSE Head(bs).lines \o AllLines(Tail(bs))

\* the number of mappings of a line
Span(l) == IF l.hi < l.lo THEN 0 ELSE l.hi - l.lo + 1

\* the number of mappings of the first n lines
RECURSIVE SpanBefore(_, _)
SpanBefore(ls, n) == IF n = 0 THEN 0 ELSE SpanBefore(ls, n - 1) + Span(ls[n])

\* every block has its count and white space before endbfrange
WellFormed(bs) == \A b \in DOMAIN bs : bs[b].counted /\ bs[b].spaced

\* the last line that writes the byte k, counting as the code does
LastWriter(ls, first, k) ==
  {n \in DOMAIN ls :
     /\ \E i \in 0..(Span(ls[n]) - 1) : ByteOf(first + SpanBefore(ls, n - 1) + i) = k
     /\ \A m \in (n + 1)..Len(ls) :
          \A i \in 0..(Span(ls[m]) - 1) : ByteOf(first + SpanBefore(ls, m - 1) + i) # k}

\* C23 as stated: every bfrange line <start><end><value> contributes the
\* mappings byte(firstChar+i) -> value+i, i = 0..end-start, unless a later
\* line writes the same byte; and the one-line block written without count
\* and without white space before endbfrange maps 0, 1, 2 to a, b, c.
C23_EachLineFromFirstChar ==
  cpc = "extracted" =>
    /\ WellFormed(cmap) =>
         \A n \in DOMAIN AllLines(cmap) : \A i \in 0..(Span(AllLines(cmap)[n]) - 1) :
           (\A m \in (n + 1)..Len(AllLines(cmap)) : i >= Span(AllLines(cmap)[m])) =>
             /\ ByteOf(firstChar + i) \in DOMAIN fontMap
             /\ fontMap[ByteOf(firstChar + i)] = AllLines(cmap)[n].val + i
    /\ (firstChar = 0
        /\ cmap = <<[counted |-> FALSE, spaced |-> FALSE, lines |-> <<Triple(65, 67, 97)>>]>>) =>
         fontMap = (0 :> 97) @@ (1 :> 98) @@ (2 :> 99)

\* C23 amended: in a CMap whose blocks are written "n beginbfrange" and
\* have white space before endbfrange, line number n contributes the
\* mappings byte(firstChar+c+i) -> value+i, i = 0..end-start, c being the
\* number of mappings of the lines before it, and fontMap holds nothing else.
C23_LinesCountOn ==
  (cpc = "extracted" /\ WellFormed(cmap)) =>
    /\ DOMAIN fontMap = {k \in 0..255 : LastWriter(AllLines(cmap), firstChar, k) # {}}
    /\ \A k \in DOMAIN fontMap :
         \A n \in LastWriter(AllLines(cmap), firstChar, k) :
           \E i \in 0..(Span(AllLines(cmap)[n]) - 1) :
             /\ ByteOf(firstChar + SpanBefore(AllLines(cmap), n - 1) + i) = k
             /\ fontMap[k] = AllLines(cmap)[n].val + i

\* C23 witness: two blocks, the second of which starts after the three
\* mappings of the first; with FirstChar 255 the keys wrap around.
C23_Witness ==
  /\ cpc = "extracted" /\ WellFormed(cmap) /\ firstChar = 255
  /\ Len(cmap) = 2 /\ cmap[1].lines = <<Triple(65, 67, 97)>>
  /\ cmap[2].lines = <<Triple(32, 32, 65)>>
  /\ fontMap = (255 :> 97) @@ (0 :> 98) @@ (1 :> 99) @@ (2 :> 65)
\* ------------------------------------------------------------- tokenizer.go
\* A content stream is a sequence of one-character strings, a token value and
\* an operand are such sequences too.  Numbers are integers: the streams
\* below write no fraction.
MaxStmts == 3

\* type Matrix [3][3]float64
Mat(a, b, c, d, e, f) == <<<<a, b, 0>>, <<c, d, 0>>, <<e, f, 1>>>>
IdentityMatrix == Mat(1, 0, 0, 1, 0, 0)
\* func (m Matrix) Multiply(n Matrix) Matrix
Multiply(m, n) ==
  [i \in 1..3 |-> [j \in 1..3 |-> m[i][1] * n[1][j] + m[i][2] * n[2][j] + m[i][3] * n[3][j]]]
\* the matrix {1, 0, 0}, {0, 1, 0}, {tx, ty, 1}
Translate(tx, ty) == Mat(1, 0, 0, 1, tx, ty)

\* NewTextState()
NewTextState ==
  [Tm |-> IdentityMatrix, Tlm |-> IdentityMatrix, Font |-> <<>>, FontSize |-> 12,
   CharSpacing |-> 0, WordSpacing |-> 0, HorizontalScaling |-> 100, Leading |-> 0]
\* NewPathState(): Path is the sequence of the segments written into the string
NewPathState == [X |-> 0, Y |-> 0, Width |-> 0, Height |-> 0, Path |-> <<>>]
\* NewColorState(): the empty string is <<>>, "#rrggbb" is <<r, g, b>>
NewColorState == [StrokeColor |-> <<>>, FillColor |-> <<>>]
\* one segment "M x y " or "L x y " of the path string
Seg(op, x, y) == [op |-> op, x |-> x, y |-> y]

\* ParseFloat(str) of tokenizer.go: 0 when str is not a number
TokenizerParseFloat(str) == IF Atoi(str).err THEN 0 ELSE Atoi(str).v

\* var operators
operators ==
  { <<"q">>, <<"Q">>, <<"c", "m">>, <<"B", "T">>, <<"E", "T">>,
    <<"T", "f">>, <<"T", "r">>, <<"T", "s">>, <<"T", "w">>, <<"T", "c">>,
    <<"T", "z">>, <<"T", "L">>, <<"T", "m">>, <<"T", "d">>, <<"T", "D">>,
    <<"T", "*">>, <<"'">>, <<"\"">>, <<"T", "j">>, <<"T", "J">>,
    <<"D", "o">>, <<"w">>, <<"r", "e">>, <<"m">>, <<"l">>,
    <<"h">>, <<"f">>, <<"s", "c">>, <<"s", "c", "n">>, <<"g", "s">>,
    <<"c", "s">>, <<"W">>, <<"n">>, <<"f", "*">>, <<"c">>,
    <<"S", "C">>, <<"M">>, <<"S">>, <<"C", "S">>, <<"r", "i">> }
isOperator(s) == s \in operators
\* the case labels of the switch in processTokens
Cases ==
  { <<"q">>, <<"Q">>, <<"c", "m">>, <<"B", "T">>, <<"E", "T">>, <<"T", "f">>,
    <<"T", "c">>, <<"T", "w">>, <<"T", "z">>, <<"T", "L">>, <<"T", "m">>,
    <<"T", "d">>, <<"T", "D">>, <<"T", "*">>, <<"'">>, <<"\"">>, <<"T", "j">>,
    <<"T", "J">>, <<"D", "o">>, <<"m">>, <<"l">>, <<"h">>, <<"s", "c">>,
    <<"S", "C">>, <<"c", "s">>, <<"r", "e">>, <<"W">>, <<"n">>, <<"w">>,
    <<"f">>, <<"S">>, <<"f", "*">>, <<"g", "s">>, <<"c">>, <<"C", "S">> }

\* Token{Value, Type}
Token(v, ty) == [Value |-> v, Type |-> ty]
\* the token made of a finished word
WordToken(tokenValue) ==
  IF isOperator(tokenValue) THEN Token(tokenValue, "Operator") ELSE Token(tokenValue, "Operand")

\* tokenize: the loop over the bytes of content, i counted from 1
RECURSIVE TokenizeLoop(_, _, _, _, _, _, _)
TokenizeLoop(content, i, toks, currentToken, inString, inArray, escapeNext) ==
  CASE i > Len(content) ->
         IF currentToken # <<>> THEN Append(toks, WordToken(currentToken)) ELSE toks
    [] i <= Len(content) /\ inString /\ escapeNext ->
         TokenizeLoop(content, i + 1, toks, Append(currentToken, content[i]), TRUE, inArray, FALSE)
    [] i <= Len(content) /\ inString /\ ~escapeNext /\ content[i] = "\\" ->
         TokenizeLoop(content, i + 1, toks, Append(currentToken, content[i]), TRUE, inArray, TRUE)
    [] i <= Len(content) /\ inString /\ ~escapeNext /\ content[i] = ")" ->
         TokenizeLoop(content, i + 1,
                      Append(toks, Token(Append(currentToken, content[i]), "Operand")),
                      <<>>, FALSE, inArray, FALSE)
    [] i <= Len(content) /\ inString /\ ~escapeNext /\ content[i] \notin {"\\", ")"} ->
         TokenizeLoop(content, i + 1, toks, Append(currentToken, content[i]), TRUE, inArray, FALSE)
    [] i <= Len(content) /\ ~inString /\ inArray /\ content[i] = "]" ->
         TokenizeLoop(content, i + 1,
                      Append(toks, Token(Append(currentToken, content[i]), "Operand")),
                      <<>>, FALSE, FALSE, escapeNext)
    [] i <= Len(content) /\ ~inString /\ inArray /\ content[i] # "]" ->
         TokenizeLoop(content, i + 1, toks, Append(currentToken, content[i]), FALSE, TRUE, escapeNext)
    [] i <= Len(content) /\ ~inString /\ ~inArray /\ content[i] \in {" ", "\t", "\r", "\n"} ->
         TokenizeLoop(content, i + 1,
                      IF currentToken # <<>> THEN Append(toks, WordToken(currentToken)) ELSE toks,
                      <<>>, FALSE, FALSE, escapeNext)
    [] i <= Len(content) /\ ~inString /\ ~inArray /\ content[i] = "(" ->
         TokenizeLoop(content, i + 1, toks, Append(currentToken, content[i]), TRUE, FALSE, escapeNext)
    [] i <= Len(content) /\ ~inString /\ ~inArray /\ content[i] = "[" ->
         TokenizeLoop(content, i + 1, toks, Append(currentToken, content[i]), FALSE, TRUE, escapeNext)
    [] OTHER ->
         TokenizeLoop(content, i + 1, toks, Append(currentToken, content[i]), FALSE, FALSE, escapeNext)
tokenize(content) == TokenizeLoop(content, 1, <<>>, <<>>, FALSE, FALSE, FALSE)

\* fonts[c] of a map[byte]string: the empty string for a byte without entry
Glyph(fonts, c) == IF c \in DOMAIN fonts THEN fonts[c] ELSE ""
\* parsePDFStringToBytes: the loop over inner
RECURSIVE StringBytesLoop(_, _, _, _, _)
StringBytesLoop(inner, i, fonts, result, escape) ==
  IF i > Len(inner) THEN result
  ELSE IF escape THEN StringBytesLoop(inner, i + 1, fonts, Append(result, Glyph(fonts, inner[i])), FALSE)
  ELSE IF inner[i] = "\\" THEN StringBytesLoop(inner, i + 1, fonts, result, TRUE)
  ELSE StringBytesLoop(inner, i + 1, fonts, Append(result, Glyph(fonts, inner[i])), FALSE)
parsePDFStringToBytes(pdfString, fonts) ==
  IF Len(pdfString) < 2 THEN <<>>
  ELSE StringBytesLoop(SubSeq(pdfString, 2, Len(pdfString) - 1), 1, fonts, <<>>, FALSE)

\* to.fonts: the ToUnicode maps of the page's fonts, by font name
PageFonts == (<<"F", "1">> :> ("A" :> "a"))
\* to.fonts[textState.Font]: the nil map for a name without entry
FontOf(name) == IF name \in DOMAIN PageFonts THEN PageFonts[name] ELSE <<>>

\* parseColor(rgb): "#%02x%02x%02x" of the first three components times 255;
\* rgb[0], rgb[1], rgb[2] of a shorter slice is an index out of range
parseColor(rgb) ==
  IF Len(rgb) < 3 THEN [panic |-> TRUE, color |-> <<>>]
  ELSE [panic |-> FALSE, color |-> <<rgb[1] * 255, rgb[2] * 255, rgb[3] * 255>>]
\* components: ParseFloat of every pending operand
Components(stack) == [n \in DOMAIN stack |-> TokenizerParseFloat(stack[n])]

\* TextCommand, ImageCommand and PathCommand: the fields set from the position,
\* the counter, the text, the path and the colors
TextCommandAtOrigin(trm, z, t, color) == [X |-> trm[1][3], Y |-> trm[2][3], Z |-> z, Text |-> t, Color |-> color]
TextCommand(trm, z, t, color) == [X |-> trm[3][1], Y |-> trm[3][2], Z |-> z, Text |-> t, Color |-> color]
ImageCommand(ctm, z, name, clip) ==
  [X |-> ctm[3][1], Y |-> ctm[3][2], Z |-> z, DW |-> ctm[1][1], DH |-> ctm[2][2],
   ImageID |-> name, ClipPath |-> clip]
PathCommand(ps, z, cs) ==
  [X |-> ps.X, Y |-> ps.Y, Z |-> z, Width |-> ps.Width, Height |-> ps.Height,
   FillColor |-> cs.FillColor, StrokeColor |-> cs.StrokeColor, Path |-> ps.Path]

\* strings.TrimLeft(s, "/")
RECURSIVE TrimSlashes(_)
TrimSlashes(s) == IF s # <<>> /\ Head(s) = "/" THEN TrimSlashes(Tail(s)) ELSE s
\* operandStack[n:]
Drop(stack, n) == SubSeq(stack, n + 1, Len(stack))

\* ------------------------------------------------- a page's content streams
\* the words of a statement, separated by one space
RECURSIVE JoinWords(_)
JoinWords(ws) ==
  IF ws = <<>> THEN <<>>
  ELSE IF Len(ws) = 1 THEN ws[1]
  ELSE ws[1] \o <<" ">> \o JoinWords(Tail(ws))
\* n1 .. nk op
Stmt(nums, rest) == JoinWords([n \in DOMAIN nums |-> IntText(nums[n])] \o rest)
StrA == <<"(", "A", ")">>
Statements ==
  { Stmt(<<>>, <<<<"q">>>>),
    Stmt(<<>>, <<<<"Q">>>>),
    Stmt(<<2, 0, 0, 2, 10, 20>>, <<<<"c", "m">>>>),
    Stmt(<<1, 0, 0, 1, 100, 200>>, <<<<"T", "m">>>>),
    Stmt(<<>>, <<StrA, <<"T", "j">>>>),
    Stmt(<<>>, <<<<"T", "j">>>>),
    Stmt(<<>>, <<StrA, <<"'">>>>),
    Stmt(<<>>, <<<<"/", "I", "m", "1">>, <<"D", "o">>>>),
    Stmt(<<10, 20, 30, 40>>, <<<<"r", "e">>>>),
    Stmt(<<>>, <<<<"f">>>>),
    Stmt(<<>>, <<<<"S">>>>),
    Stmt(<<1, 0, 0>>, <<<<"r", "g">>>>),
    Stmt(<<1, 0, 0>>, <<<<"s", "c">>>>),
    Stmt(<<0, 1, 0>>, <<<<"s", "c", "n">>>>),
    Stmt(<<0, 0, 1>>, <<<<"S", "C">>>>),
    Stmt(<<1>>, <<<<"s", "c">>>>),
    Stmt(<<0, 0, 0, 1>>, <<<<"s", "c">>>>) }
PageHeights == {792}

InitInterp ==
  /\ \E ss \in UNION {[1..n -> Statements] : n \in 1..MaxStmts} : contents = JoinWords(ss)
  /\ pageHeight \in PageHeights
  /\ tokens = <<>> /\ tokIdx = 0 /\ currentZ = 0
  /\ graphicsStack = <<>> /\ textState = <<>> /\ pathState = <<>> /\ colorState = <<>>
  /\ operandStack = <<>> /\ textCommands = <<>> /\ imageCommands = <<>>
  /\ pathCommands = <<>> /\ savedCTM = <<>> /\ xpc = "init"
  /\ SeqUnused /\ StreamUnused /\ HandlerUnused /\ AuxUnused /\ PureUnused
  /\ TreeUnused /\ ValueUnused /\ CMapUnused /\ WalkUnused /\ HeadUnused /\ WriterUnused

\* graphicsStack[len(graphicsStack)-1].CTM
CTM == graphicsStack[Len(graphicsStack)]
\* the loop of processTokens stands at an operator token with this value
AtOperator(w) ==
  /\ xpc = "run" /\ tokIdx <= Len(tokens)
  /\ tokens[tokIdx].Type = "Operator" /\ tokens[tokIdx].Value = w
\* currentState.CTM = ...: the top frame, replaced
SetCTM(stack, m) == [stack EXCEPT ![Len(stack)] = m]

\* ExtractCommands: tokenize(to.contents), then the declarations of processTokens
Tokenize ==
  /\ xpc = "init"
  /\ tokens' = tokenize(contents)
  /\ tokIdx' = 1 /\ currentZ' = 0
  /\ graphicsStack' = <<IdentityMatrix>>
  /\ textState' = NewTextState /\ pathState' = NewPathState /\ colorState' = NewColorState
  /\ operandStack' = <<>>
  /\ xpc' = "run"
  /\ UNCHANGED <<interpOthers, contents, pageHeight, textCommands, imageCommands,
                 pathCommands, savedCTM>>

\* token.Type == TokenTypeOperand
PushOperand ==
  /\ xpc = "run" /\ tokIdx <= Len(tokens) /\ tokens[tokIdx].Type = "Operand"
  /\ operandStack' = Append(operandStack, tokens[tokIdx].Value)
  /\ tokIdx' = tokIdx + 1
  /\ UNCHANGED <<interpOthers, contents, pageHeight, tokens, currentZ, graphicsStack,
                 textState, pathState, colorState, textCommands, imageCommands,
                 pathCommands, savedCTM, xpc>>

\* case "q"
SaveState ==
  /\ AtOperator(<<"q">>)
  /\ graphicsStack' = Append(graphicsStack, CTM)
  /\ savedCTM' = Append(savedCTM, CTM)
  /\ operandStack' = <<>>
  /\ tokIdx' = tokIdx + 1
  /\ UNCHANGED <<interpOthers, contents, pageHeight, tokens, currentZ, textState, pathState,
                 colorState, textCommands, imageCommands, pathCommands, xpc>>

\* case "Q"
RestoreState ==
  /\ AtOperator(<<"Q">>)
  /\ graphicsStack' = IF Len(graphicsStack) > 1
                        THEN SubSeq(graphicsStack, 1, Len(graphicsStack) - 1)
                        ELSE graphicsStack
  /\ savedCTM' = IF Len(graphicsStack) > 1 THEN SubSeq(savedCTM, 1, Len(savedCTM) - 1)
                 ELSE savedCTM
  /\ operandStack' = <<>>
  /\ tokIdx' = tokIdx + 1
  /\ UNCHANGED <<interpOthers, contents, pageHeight, tokens, currentZ, textState, pathState,
                 colorState, textCommands, imageCommands, pathCommands, xpc>>

\* currentState.CTM = currentState.CTM.Multiply(m): the frames after cm
ConcatAllFrames(stack, m) == [k \in DOMAIN stack |-> Multiply(stack[Len(stack)], m)]
Concat(stack, m) == SetCTM(stack, Multiply(stack[Len(stack)], m))

\* case "cm"
ConcatMatrix ==
  /\ AtOperator(<<"c", "m">>)
  /\ IF Len(operandStack) >= 6
       THEN /\ graphicsStack' =
                 Concat(graphicsStack,
                        Mat(TokenizerParseFloat(operandStack[1]), TokenizerParseFloat(operandStack[2]),
                            TokenizerParseFloat(operandStack[3]), TokenizerParseFloat(operandStack[4]),
                            TokenizerParseFloat(operandStack[5]), TokenizerParseFloat(operandStack[6])))
            /\ operandStack' = Drop(operandStack, 6)
       ELSE UNCHANGED <<graphicsStack, operandStack>>
  /\ tokIdx' = tokIdx + 1
  /\ UNCHANGED <<interpOthers, contents, pageHeight, tokens, currentZ, textState, pathState,
                 colorState, textCommands, imageCommands, pathCommands, savedCTM, xpc>>

\* case "Tm"
SetTextMatrix ==
  /\ AtOperator(<<"T", "m">>)
  /\ IF Len(operandStack) >= 6
       THEN LET m == Mat(TokenizerParseFloat(operandStack[1]), TokenizerParseFloat(operandStack[2]),
                         TokenizerParseFloat(operandStack[3]), TokenizerParseFloat(operandStack[4]),
                         TokenizerParseFloat(operandStack[5]), TokenizerParseFloat(operandStack[6]))
            IN  /\ textState' = [textState EXCEPT !.Tm = m, !.Tlm = m]
                /\ operandStack' = Drop(operandStack, 6)
       ELSE UNCHANGED <<textState, operandStack>>
  /\ tokIdx' = tokIdx + 1
  /\ UNCHANGED <<interpOthers, contents, pageHeight, tokens, currentZ, graphicsStack, pathState,
                 colorState, textCommands, imageCommands, pathCommands, savedCTM, xpc>>

\* textState.Tm = textState.Tlm.Multiply(m); textState.Tlm = textState.Tm
LineBreak(ts) ==
  [ts EXCEPT !.Tm = Multiply(ts.Tlm, Translate(0, 0 - ts.Leading)),
             !.Tlm = Multiply(ts.Tlm, Translate(0, 0 - ts.Leading))]

\* case "'"
ShowQuote ==
  /\ AtOperator(<<"'">>)
  /\ textState' = LineBreak(textState)
  /\ IF Len(operandStack) >= 1
       THEN /\ textCommands' =
                 Append(textCommands,
                        TextCommand(Multiply(LineBreak(textState).Tm, CTM), currentZ,
                                    parsePDFStringToBytes(operandStack[1], FontOf(textState.Font)),
                                    colorState.FillColor))
            /\ currentZ' = currentZ + 1
            /\ operandStack' = Drop(operandStack, 1)
       ELSE UNCHANGED <<textCommands, currentZ, operandStack>>
  /\ tokIdx' = tokIdx + 1
  /\ UNCHANGED <<interpOthers, contents, pageHeight, tokens, graphicsStack, pathState,
                 colorState, imageCommands, pathCommands, savedCTM, xpc>>

\* case "Tj"
ShowText ==
  /\ AtOperator(<<"T", "j">>)
  /\ IF Len(operandStack) >= 1
       THEN /\ textCommands' =
                 Append(textCommands,
                        TextCommand(Multiply(textState.Tm, CTM), currentZ,
                                    parsePDFStringToBytes(operandStack[1], FontOf(textState.Font)),
                                    colorState.FillColor))
            /\ operandStack' = Drop(operandStack, 1)
       ELSE UNCHANGED <<textCommands, operandStack>>
  /\ tokIdx' = tokIdx + 1
  /\ UNCHANGED <<interpOthers, contents, pageHeight, tokens, currentZ, graphicsStack, textState,
                 pathState, colorState, imageCommands, pathCommands, savedCTM, xpc>>

\* case "Do"
DoXObject ==
  /\ AtOperator(<<"D", "o">>)
  /\ IF Len(operandStack) >= 1
       THEN /\ imageCommands' =
                 Append(imageCommands,
                        ImageCommand(CTM, currentZ, TrimSlashes(operandStack[1]), pathState.Path))
            /\ currentZ' = currentZ + 1
            /\ pathState' = [pathState EXCEPT !.Path = <<>>]
            /\ operandStack' = Drop(operandStack, 1)
       ELSE UNCHANGED <<imageCommands, currentZ, pathState, operandStack>>
  /\ tokIdx' = tokIdx + 1
  /\ UNCHANGED <<interpOthers, contents, pageHeight, tokens, graphicsStack, textState,
                 colorState, textCommands, pathCommands, savedCTM, xpc>>

\* the segments fmt.Sprintf writes for re
RectanglePath(x, y, w, h, height) ==
  <<Seg("M", x, height - y), Seg("L", x + w, height - y),
    Seg("L", x + w, height - y + h), Seg("L", x, height - y + h)>>

\* case "re"
Rectangle ==
  /\ AtOperator(<<"r", "e">>)
  /\ IF Len(operandStack) >= 4
       THEN /\ pathState' =
                 [pathState EXCEPT !.Path =
                    @ \o RectanglePath(TokenizerParseFloat(operandStack[1]),
                                       TokenizerParseFloat(operandStack[2]),
                                       TokenizerParseFloat(operandStack[3]),
                                       TokenizerParseFloat(operandStack[4]), pageHeight)]
            /\ operandStack' = Drop(operandStack, 4)
       ELSE UNCHANGED <<pathState, operandStack>>
  /\ tokIdx' = tokIdx + 1
  /\ UNCHANGED <<interpOthers, contents, pageHeight, tokens, currentZ, graphicsStack, textState,
                 colorState, textCommands, imageCommands, pathCommands, savedCTM, xpc>>

\* case "sc": a panic of parseColor ends the program
SetFillColor ==
  /\ AtOperator(<<"s", "c">>)
  /\ IF parseColor(Components(operandStack)).panic
       THEN /\ xpc' = "panic"
            /\ UNCHANGED <<colorState, operandStack, tokIdx>>
       ELSE /\ colorState' = [colorState EXCEPT !.FillColor = parseColor(Components(operandStack)).color]
            /\ operandStack' = <<>>
            /\ tokIdx' = tokIdx + 1
            /\ UNCHANGED xpc
  /\ UNCHANGED <<interpOthers, contents, pageHeight, tokens, currentZ, graphicsStack, textState,
                 pathState, textCommands, imageCommands, pathCommands, savedCTM>>

\* case "SC": the operands stay on the stack
SetStrokeColor ==
  /\ AtOperator(<<"S", "C">>)
  /\ IF parseColor(Components(operandStack)).panic
       THEN /\ xpc' = "panic"
            /\ UNCHANGED <<colorState, tokIdx>>
       ELSE /\ colorState' = [colorState EXCEPT !.StrokeColor = parseColor(Components(operandStack)).color]
            /\ tokIdx' = tokIdx + 1
            /\ UNCHANGED xpc
  /\ UNCHANGED <<interpOthers, contents, pageHeight, tokens, currentZ, graphicsStack, textState,
                 pathState, operandStack, textCommands, imageCommands, pathCommands, savedCTM>>

\* case "f" (case "f*" has the same body)
Fill ==
  /\ AtOperator(<<"f">>)
  /\ pathCommands' = Append(pathCommands, PathCommand(pathState, currentZ, colorState))
  /\ pathState' = [pathState EXCEPT !.Path = <<>>]
  /\ currentZ' = currentZ + 1
  /\ operandStack' = <<>>
  /\ tokIdx' = tokIdx + 1
  /\ UNCHANGED <<interpOthers, contents, pageHeight, tokens, graphicsStack, textState,
                 colorState, textCommands, imageCommands, savedCTM, xpc>>

\* case "S": the PathCommand is built without Z
Stroke ==
  /\ AtOperator(<<"S">>)
  /\ pathCommands' = Append(pathCommands, PathCommand(pathState, 0, colorState))
  /\ pathState' = [pathState EXCEPT !.Path = <<>>]
  /\ currentZ' = currentZ + 1
  /\ operandStack' = <<>>
  /\ tokIdx' = tokIdx + 1
  /\ UNCHANGED <<interpOthers, contents, pageHeight, tokens, graphicsStack, textState,
                 colorState, textCommands, imageCommands, savedCTM, xpc>>

\* default: an operator of the table without a case
UnknownOperator ==
  /\ xpc = "run" /\ tokIdx <= Len(tokens)
  /\ tokens[tokIdx].Type = "Operator" /\ tokens[tokIdx].Value \notin Cases
  /\ operandStack' = <<>>
  /\ tokIdx' = tokIdx + 1
  /\ UNCHANGED <<interpOthers, contents, pageHeight, tokens, currentZ, graphicsStack, textState,
                 pathState, colorState, textCommands, imageCommands, pathCommands,
                 savedCTM, xpc>>

\* return textCommands, imageCommands, pathCommands
Return ==
  /\ xpc = "run" /\ tokIdx > Len(tokens)
  /\ xpc' = "done"
  /\ UNCHANGED <<interpOthers, contents, pageHeight, tokens, tokIdx, currentZ, graphicsStack,
                 textState, pathState, colorState, operandStack, textCommands,
                 imageCommands, pathCommands, savedCTM>>

NextInterp ==
  \/ Tokenize \/ PushOperand \/ SaveState \/ RestoreState \/ ConcatMatrix \/ SetTextMatrix
  \/ ShowQuote \/ ShowText \/ DoXObject \/ Rectangle
  \/ SetFillColor \/ SetStrokeColor \/ Fill \/ Stroke \/ UnknownOperator \/ Return

SpecInterp == InitInterp /\ [][NextInterp]_vars
\* ------------------------------------------------------ claims on Tj
\* the content of the text positioning example, and the same after a cm
TjExample == JoinWords(<<Stmt(<<1, 0, 0, 1, 100, 200>>, <<<<"T", "m">>>>), Stmt(<<>>, <<StrA, <<"T", "j">>>>)>>)
TjScaled == JoinWords(<<Stmt(<<2, 0, 0, 2, 10, 20>>, <<<<"c", "m">>>>), TjExample>>)
\* this step appends exactly one Text event, at the translation of Tm x CTM
\* as they stand before the step
EmitsTextAtTrm ==
  /\ Len(textCommands') = Len(textCommands) + 1
  /\ SubSeq(textCommands', 1, Len(textCommands)) = textCommands
  /\ textCommands'[Len(textCommands')].X = Multiply(textState.Tm, CTM)[3][1]
  /\ textCommands'[Len(textCommands')].Y = Multiply(textState.Tm, CTM)[3][2]
\* the example's outcome: one Text event at x = 100, y = 200
ExampleAt100x200 ==
  (contents = TjExample /\ xpc = "done") =>
    /\ Len(textCommands) = 1
    /\ textCommands[1].X = 100 /\ textCommands[1].Y = 200

\* C24 as stated: each Tj emits one Text event whose (x, y) is the translation
\* component of Tm x CTM at the time of the operator, and the example content
\* yields a Text event at x = 100, y = 200
C24_EachTjEmitsAtTrm ==
  /\ [][AtOperator(<<"T", "j">>) => EmitsTextAtTrm]_vars
  /\ []ExampleAt100x200

\* C24 amended: each Tj that finds at least one pending operand emits one Text
\* event at the translation component of Tm x CTM, a Tj that finds none emits
\* nothing, and the example content yields a Text event at x = 100, y = 200
C24_TjWithOperandEmitsAtTrm ==
  /\ [][(AtOperator(<<"T", "j">>) /\ Len(operandStack) >= 1) => EmitsTextAtTrm]_vars
  /\ [][(AtOperator(<<"T", "j">>) /\ Len(operandStack) = 0) => textCommands' = textCommands]_vars
  /\ []ExampleAt100x200

\* a Tj under a scaled and moved CTM: (100, 200) lands on (210, 420)
C24_Witness ==
  /\ contents = TjScaled /\ xpc = "done"
  /\ Len(textCommands) = 1
  /\ textCommands[1].X = 210 /\ textCommands[1].Y = 420
\* ------------------------------------------------------ claims on re and f
\* the content `10 20 30 40 re f`
ReExample == JoinWords(<<Stmt(<<10, 20, 30, 40>>, <<<<"r", "e">>>>), Stmt(<<>>, <<<<"f">>>>)>>)
\* the corners (x, y), (x+w, y), (x+w, y+h), (x, y+h), every y flipped as height - y
FlippedCorners(x, y, w, h, height) ==
  <<Seg("M", x, height - y), Seg("L", x + w, height - y),
    Seg("L", x + w, height - (y + h)), Seg("L", x, height - (y + h))>>
\* the path goes through the corners and is closed, by Z or by a line back to
\* the first corner
ClosedRectangle(path, x, y, w, h, height) ==
  /\ Len(path) = 5
  /\ SubSeq(path, 1, 4) = FlippedCorners(x, y, w, h, height)
  /\ path[5] \in {Seg("Z", 0, 0), Seg("L", x, height - y)}

\* C25: `x y w h re` followed by `f` emits exactly one Path event whose path
\* is a closed rectangle through (x, y), (x+w, y), (x+w, y+h), (x, y+h) with
\* every y-coordinate flipped as pageHeight - y
C25_FlippedClosedRectangle ==
  (contents = ReExample /\ xpc = "done") =>
    /\ Len(pathCommands) = 1
    /\ ClosedRectangle(pathCommands[1].Path, 10, 20, 30, 40, pageHeight)
\* ------------------------------------------------------ claims on the z-order
\* the Z of every drawable emitted so far
ZValues(cmds) == [n \in DOMAIN cmds |-> cmds[n].Z]
AllZ == ZValues(textCommands) \o ZValues(imageCommands) \o ZValues(pathCommands)

\* C26: the z-order counter starts at 0 and is incremented exactly once for each
\* emitted drawable, each drawable carries the counter value at its emission,
\* and so no two drawables of a page share a z
C26_OneZPerDrawable ==
  (xpc \in {"run", "done"}) =>
    /\ currentZ = Len(AllZ)
    /\ \A m, n \in DOMAIN AllZ : m # n => AllZ[m] # AllZ[n]
    /\ \A n \in DOMAIN AllZ : AllZ[n] \in 0..(currentZ - 1)
\* ------------------------------------------------------ claims on unknown operators
\* a word of the stream that is an operator by its spelling: not a number, a
\* string, an array or a name
IsOperatorWord(w) == w # <<>> /\ ~IsDigit(Head(w)) /\ Head(w) \notin {"-", "+", ".", "(", "[", "/"}
\* the loop stands at an operator word for which the switch has no case
AtUnimplemented ==
  /\ xpc = "run" /\ tokIdx <= Len(tokens)
  /\ IsOperatorWord(tokens[tokIdx].Value) /\ tokens[tokIdx].Value \notin Cases
\* `1 0 0 rg` before the text positioning example
RgThenTj == JoinWords(<<Stmt(<<1, 0, 0>>, <<<<"r", "g">>>>), TjExample>>)

\* C27: an operator the interpreter does not implement (rg, g, k, BMC) never
\* aborts and only discards its pending operands: the operand stack is empty
\* afterwards, no event is emitted, no graphics, text, color or path state
\* changes, and so the later operators run as if it had not been in the stream
C27_UnimplementedOnlyDiscards ==
  /\ [][AtUnimplemented =>
          /\ operandStack' = <<>> /\ xpc' = "run"
          /\ UNCHANGED <<currentZ, graphicsStack, textState, pathState, colorState,
                         textCommands, imageCommands, pathCommands>>]_vars
  /\ []((contents = RgThenTj /\ xpc = "done") =>
          (Len(textCommands) = 1 /\ textCommands[1].X = 100 /\ textCommands[1].Y = 200))
\* ------------------------------------------------------ claims on the color operators
\* "#rrggbb" of three components: each channel times 255
RGB(components) == <<components[1] * 255, components[2] * 255, components[3] * 255>>

\* C28: each of sc, scn and SC takes all pending operands as color components,
\* sets the fill color (sc, scn) or the stroke color (SC) from them, and leaves
\* the operand stack empty
C28_ColorOperatorsConsumeAll ==
  [][/\ (AtOperator(<<"s", "c">>) \/ AtOperator(<<"s", "c", "n">>) \/ AtOperator(<<"S", "C">>)) =>
          operandStack' = <<>>
     /\ ((AtOperator(<<"s", "c">>) \/ AtOperator(<<"s", "c", "n">>)) /\ Len(operandStack) = 3) =>
          colorState'.FillColor = RGB(Components(operandStack))
     /\ (AtOperator(<<"S", "C">>) /\ Len(operandStack) = 3) =>
          colorState'.StrokeColor = RGB(Components(operandStack))]_vars
\* C29: a color operator given a number of components other than 3 is accepted:
\* interpretation does not fail or stop, a color string is produced, and the
\* later operators of the page are still executed
C29_AnyComponentCountAccepted ==
  /\ [](xpc # "panic")
  /\ [][((AtOperator(<<"s", "c">>) /\ Len(operandStack) # 3) =>
           (xpc' = "run" /\ tokIdx' = tokIdx + 1 /\ colorState'.FillColor # <<>>))
        /\ ((AtOperator(<<"S", "C">>) /\ Len(operandStack) # 3) =>
           (xpc' = "run" /\ tokIdx' = tokIdx + 1 /\ colorState'.StrokeColor # <<>>))]_vars
\* ------------------------------------------------------ claims on q and Q
\* the content `q 2 0 0 2 10 20 cm Q`
SaveConcatRestore ==
  JoinWords(<<Stmt(<<>>, <<<<"q">>>>), Stmt(<<2, 0, 0, 2, 10, 20>>, <<<<"c", "m">>>>),
              Stmt(<<>>, <<<<"Q">>>>)>>)

\* C30: the graphics-state stack always holds at least the initial frame; Q on
\* a stack holding only the initial frame changes nothing of the graphics,
\* text, color and path state nor of the output; and after a balanced q ... Q
\* the CTM is the CTM in effect just before the q, whatever cm ran in between
C30_BalancedRestoresCTM ==
  /\ []((xpc \in {"run", "done", "panic"}) =>
          (Len(graphicsStack) >= 1 /\ Len(savedCTM) = Len(graphicsStack) - 1))
  /\ [][(AtOperator(<<"Q">>) /\ Len(graphicsStack) = 1) =>
          UNCHANGED <<graphicsStack, currentZ, textState, pathState, colorState,
                      textCommands, imageCommands, pathCommands>>]_vars
  /\ [][(AtOperator(<<"Q">>) /\ Len(graphicsStack) > 1) =>
          /\ Len(graphicsStack') = Len(graphicsStack) - 1
          /\ graphicsStack'[Len(graphicsStack')] = savedCTM[Len(savedCTM)]]_vars

\* `q 2 0 0 2 10 20 cm Q` has run: the CTM the cm scaled is the identity again
C30_Witness ==
  /\ contents = SaveConcatRestore /\ xpc = "done"
  /\ graphicsStack = <<IdentityMatrix>>
\* ------------------------------------------------------ text positioning
\* textState.Tm = textState.Tlm.Multiply(m); textState.Tlm = textState.Tm,
\* with m the matrix {1, 0, 0}, {0, 1, 0}, {tx, ty, 1}
MoveLine(ts, tx, ty) ==
  [ts EXCEPT !.Tm = Multiply(ts.Tlm, Translate(tx, ty)),
             !.Tlm = Multiply(ts.Tlm, Translate(tx, ty))]

\* case "Td"
MoveText ==
  /\ AtOperator(<<"T", "d">>)
  /\ IF Len(operandStack) >= 2
       THEN /\ textState' = MoveLine(textState, TokenizerParseFloat(operandStack[1]),
                                     TokenizerParseFloat(operandStack[2]))
            /\ operandStack' = Drop(operandStack, 2)
       ELSE UNCHANGED <<textState, operandStack>>
  /\ tokIdx' = tokIdx + 1
  /\ UNCHANGED <<interpOthers, contents, pageHeight, tokens, currentZ, graphicsStack, pathState,
                 colorState, textCommands, imageCommands, pathCommands, savedCTM, xpc>>

\* case "TD"
MoveTextLeading ==
  /\ AtOperator(<<"T", "D">>)
  /\ IF Len(operandStack) >= 2
       THEN /\ textState' =
                 MoveLine([textState EXCEPT !.Leading = 0 - TokenizerParseFloat(operandStack[2])],
                          TokenizerParseFloat(operandStack[1]),
                          TokenizerParseFloat(operandStack[2]))
            /\ operandStack' = Drop(operandStack, 2)
       ELSE UNCHANGED <<textState, operandStack>>
  /\ tokIdx' = tokIdx + 1
  /\ UNCHANGED <<interpOthers, contents, pageHeight, tokens, currentZ, graphicsStack, pathState,
                 colorState, textCommands, imageCommands, pathCommands, savedCTM, xpc>>

\* content streams that place text
TextStatements ==
  { Stmt(<<1, 0, 0, 1, 100, 200>>, <<<<"T", "m">>>>),
    Stmt(<<2, 0, 0, 3, 100, 200>>, <<<<"T", "m">>>>),
    Stmt(<<5, 7>>, <<<<"T", "d">>>>),
    Stmt(<<5, 7>>, <<<<"T", "D">>>>),
    Stmt(<<>>, <<StrA, <<"T", "j">>>>),
    Stmt(<<>>, <<StrA, <<"'">>>>) }

InitText ==
  /\ \E ss \in UNION {[1..n -> TextStatements] : n \in 1..MaxStmts} : contents = JoinWords(ss)
  /\ pageHeight \in PageHeights
  /\ tokens = <<>> /\ tokIdx = 0 /\ currentZ = 0
  /\ graphicsStack = <<>> /\ textState = <<>> /\ pathState = <<>> /\ colorState = <<>>
  /\ operandStack = <<>> /\ textCommands = <<>> /\ imageCommands = <<>>
  /\ pathCommands = <<>> /\ savedCTM = <<>> /\ xpc = "init"
  /\ SeqUnused /\ StreamUnused /\ HandlerUnused /\ AuxUnused /\ PureUnused
  /\ TreeUnused /\ ValueUnused /\ CMapUnused /\ WalkUnused /\ HeadUnused /\ WriterUnused

NextText ==
  \/ Tokenize \/ PushOperand \/ SetTextMatrix \/ MoveText \/ MoveTextLeading
  \/ ShowText \/ ShowQuote \/ Return

SpecText == InitText /\ [][NextText]_vars

\* translation(tx, ty) x Tlm, the translation being the left factor
TranslationTimes(ts, tx, ty) == Multiply(Translate(tx, ty), ts.Tlm)

\* C31: `tx ty Td` and `tx ty TD` set Tm to translation(tx, ty) x Tlm, the
\* translation being the left factor, then set Tlm to Tm; TD also sets Leading
\* to -ty
C31_TranslationIsLeftFactor ==
  [][((AtOperator(<<"T", "d">>) \/ AtOperator(<<"T", "D">>)) /\ Len(operandStack) >= 2) =>
       /\ textState'.Tm = TranslationTimes(textState, TokenizerParseFloat(operandStack[1]),
                                           TokenizerParseFloat(operandStack[2]))
       /\ textState'.Tlm = textState'.Tm
       /\ AtOperator(<<"T", "D">>) =>
            textState'.Leading = 0 - TokenizerParseFloat(operandStack[2])]_vars

\* ---------------------------------------------------------------------------
\* The page tree walk of StreamPageContents (loadPageObject), call after call
\* on one parser
\* ---------------------------------------------------------------------------

\* the objects of the page tree are numbered 1..MaxNodes; object 1 is the one
\* the catalog's /Pages names
MaxNodes == 3
\* StreamPageContents calls made on one parser
MaxCalls == 2

Nodes == 1..MaxNodes

\* a /Type /Pages object with its /Kids array, or a /Type /Page object with or
\* without a /MediaBox of its own (and no /Parent to inherit one from)
PagesNode(ks) == [type |-> "Pages", kids |-> ks, box |-> FALSE]
PageNode(b) == [type |-> "Page", kids |-> {}, box |-> b]
NodeKinds == {PagesNode(ks) : ks \in SUBSET Nodes} \cup {PageNode(b) : b \in BOOLEAN}

\* the /Kids array of an object lists its references by ascending object number
RECURSIVE Ascending(_)
Ascending(S) ==
  IF S = {} THEN <<>>
  ELSE LET m == CHOOSE x \in S : \A y \in S : x <= y
       IN  <<m>> \o Ascending(S \ {m})

WalkResult(st, q) == [state |-> st, queue |-> q]

\* p.loadPerPageObject(ref) with p.pageQueue = queue, d objects being on the
\* path from object 1 to ref; a path of more than MaxNodes objects repeats an
\* object, and the recursion then never ends (the goroutine's stack overflows)
RECURSIVE WalkNode(_, _, _, _)
RECURSIVE WalkKids(_, _, _, _)
WalkNode(t, ref, queue, d) ==
  CASE d > MaxNodes -> WalkResult("crash", queue)
    [] t[ref].type = "Pages" -> WalkKids(t, Ascending(t[ref].kids), queue, d)
    [] t[ref].type = "Page" /\ t[ref].box -> WalkResult("nil", Append(queue, ref))
    [] OTHER -> WalkResult("err", queue)

\* the `for _, kid := range kids` loop of an object that d objects lead to
WalkKids(t, ks, queue, d) ==
  IF ks = <<>> THEN WalkResult("nil", queue)
  ELSE LET r == WalkNode(t, Head(ks), queue, d + 1)
       IN  IF r.state # "nil" THEN r
           ELSE WalkKids(t, Tail(ks), r.queue, d)

\* p.loadPageObject(catalog) with p.pageQueue = queue
loadPageObject(t, queue) ==
  IF t[1].type = "Pages" THEN WalkKids(t, Ascending(t[1].kids), queue, 1)
  ELSE WalkNode(t, 1, queue, 1)

InitWalk ==
  /\ tree \in [Nodes -> NodeKinds]
  /\ walks = 0 /\ walkErr = "none"
  /\ SeqUnused /\ StreamUnused /\ HandlerUnused /\ AuxUnused /\ PureUnused
  /\ TreeUnused /\ ValueUnused /\ CMapUnused /\ InterpUnused /\ HeadUnused /\ WriterUnused

\* one StreamPageContents call, up to the return of p.loadPageObject
LoadPageObject ==
  /\ tree # <<>> /\ walks < MaxCalls /\ walkErr # "crash"
  /\ LET r == loadPageObject(tree, pageQueue)
     IN  /\ pageQueue' = r.queue
         /\ walkErr' = r.state
  /\ walks' = walks + 1
  /\ UNCHANGED <<tree, walkOthers>>

NextWalk == LoadPageObject

SpecWalk == InitWalk /\ [][NextWalk]_vars

\* C32: the page tree walk ends on every document: no loadPageObject call
\* recurses without end, a document whose /Kids lead back to an object already
\* on the path gets an error
C32_WalkTerminates == walkErr # "crash"

\* every object has at most one /Kids array naming it, and object 1 has none
ProperTree ==
  /\ \A n \in Nodes : Cardinality({m \in Nodes : n \in tree[m].kids}) <= 1
  /\ \A m \in Nodes : 1 \notin tree[m].kids

\* the pages below ref in depth-first /Kids order
RECURSIVE DepthFirst(_, _, _)
RECURSIVE DepthFirstKids(_, _, _)
DepthFirst(t, ref, d) ==
  CASE d > MaxNodes -> <<>>
    [] t[ref].type = "Pages" -> DepthFirstKids(t, Ascending(t[ref].kids), d)
    [] OTHER -> <<ref>>
DepthFirstKids(t, ks, d) ==
  IF ks = <<>> THEN <<>>
  ELSE DepthFirst(t, Head(ks), d + 1) \o DepthFirstKids(t, Tail(ks), d)

\* C33: after any number of StreamPageContents calls on one parser, the page
\* list holds each page of the document exactly once, in depth-first /Kids
\* order
C33_PageListBuiltOnce ==
  (walks >= 1 /\ walkErr = "nil" /\ ProperTree) => pageQueue = DepthFirst(tree, 1, 1)

\* ---------------------------------------------------------------------------
\* The font table p.fonts over the pages one StreamPageContents call visits
\* ---------------------------------------------------------------------------

\* a page whose /F1 is a Type1 font: ExtractFont skips it (`continue`), the
\* page's text is shown with F1
KType1 == PageKind(FALSE, FALSE, FALSE, NoMap, <<"F1">>, 0, <<>>, NoMap)

FontTableKinds == {KText, KMixed, KAlt, KType1}

InitFontTable ==
  /\ req = NoReq
  /\ start = 1 /\ end = DefaultEnd /\ base \in StreamReqVals
  /\ pageLen = 0 /\ seqn = <<>> /\ ret = "none" /\ pc = "start"
  /\ doc \in DocsOf(FontTableKinds)
  /\ docState = "ok"
  /\ pageQueue = <<>> /\ pfonts = NoMap
  /\ idx = 0 /\ pending = <<>> /\ imgCommands = <<>> /\ imgIdx = 0
  /\ fontFileList = NoMap /\ fontsDone = {} /\ emitted = <<>>
  /\ sink = "direct" /\ outCh = <<>> /\ encoded = <<>> /\ hpc = "none"
  /\ hasFile = TRUE /\ closed = FALSE /\ cancelled = FALSE
  /\ AuxUnused /\ PureUnused
  /\ UnitUnused

SpecFontTable == InitFontTable /\ [][StreamNext]_vars

\* the Text event StreamPageContents is about to emit
AtTextEvent == pc = "emit" /\ pending # <<>> /\ Head(pending).type = "Text"

\* C34: the font program reference taken for a Text event of a page is the
\* one its font has in that page's own resources (none, if the page's
\* resources give the font no entry of the table), never one a page visited
\* earlier left in the table
C34_FontsOfOwnPage ==
  [][AtTextEvent =>
       MapGet(fontFileList', Head(pending).font) =
         MapGet(pageQueue[Head(pending).page].fonts, Head(pending).font)]_vars

\* ---------------------------------------------------------------------------
\* NewPDFParser on files with more cross-reference data than one subsection
\* ---------------------------------------------------------------------------

XrefFiles ==
  [open : {TRUE}, startxref : {TRUE}, startObj : {0, 1}, numEntries : 0..MaxEntries,
   entries : UNION {[1..n -> {"n", "f"}] : n \in 0..MaxEntries},
   trailer : {"none", "noRoot", "badRef", "ref"}, root : 0..(MaxEntries + 1),
   at : {"xref", "obj"}, sub : {<<>>, <<"n">>, <<"f">>}, prev : BOOLEAN]

InitXref ==
  /\ pdf \in XrefFiles
  /\ pp = NoParser /\ perr = FALSE /\ opc = "init"
  /\ SeqUnused /\ StreamUnused /\ HandlerUnused /\ AuxUnused /\ FontUnused /\ ChunkUnused
  /\ UnitUnused

SpecXref == InitXref /\ [][NextOpen]_vars

\* the file has a second subsection, an earlier section or a cross-reference
\* stream
UsesMoreXref(f) == f.sub # <<>> \/ f.prev \/ f.at # "xref"

\* C35: NewPDFParser fails on every file that has a second xref subsection,
\* an incremental update or a cross-reference stream; it never returns a
\* parser whose index was built from part of the cross-reference data
C35_PartialXrefFails ==
  (opc # "init" /\ UsesMoreXref(pdf)) => (perr /\ pp = NoParser)

\* ---------------------------------------------------------------------------
\* fixOS2Table on a font without an OS/2 table: the record it adds
\* ---------------------------------------------------------------------------

\* the table directory of the font file d, which fixOS2Table accepts
DirectoryIn(d) == parseTableDirectory(Slice(d, 12, Len(d)), Uint16(d, 4))

\* the directory of the font file d has no OS/2 record
LacksOS2(d) == \A i \in DOMAIN DirectoryIn(d) : DirectoryIn(d)[i].Tag # TagOS2

\* fixOS2Table has returned fontBytes for the input fontPrev, which had no
\* OS/2 table
FixedWithoutOS2 == fixes = 1 /\ ~fixErr /\ LacksOS2(fontPrev)

\* the directory record fixOS2Table has added to fontBytes
AddedRecord == DirectoryIn(fontBytes)[Uint16(fontPrev, 4) + 1]

\* C36: for a font without an OS/2 table the record added to the directory
\* has the offset len(input) rounded up to a multiple of 4 and the length of
\* the synthesized table, and the output holds the synthesized table at
\* exactly these bytes
C36_AddedRecordAddressesTable ==
  FixedWithoutOS2 =>
    /\ AddedRecord.Tag = TagOS2
    /\ BigEndian(AddedRecord.Offset) = align4(Len(fontPrev))
    /\ BigEndian(AddedRecord.Length) = Len(os2Data)
    /\ Slice(fontBytes, BigEndian(AddedRecord.Offset),
             BigEndian(AddedRecord.Offset) + BigEndian(AddedRecord.Length)) = os2Data

\* ---------------------------------------------------------------------------
\* fixOS2Table: the offset table for every table count of the 16-bit header
\* ---------------------------------------------------------------------------

\* the largest uint16
MaxUint16 == 65535

\* the offset table parseOffsetTable returns for a font of n tables
OffsetTableOf(n) ==
  [SfntVersion |-> <<0, 1, 0, 0>>, NumTables |-> n, SearchRange |-> 0,
   EntrySelector |-> 0, RangeShift |-> 0]

InitHead ==
  /\ tablesIn \in 0..MaxUint16
  /\ os2Found \in BOOLEAN
  /\ os2Found => tablesIn >= 1
  /\ offsetTable = OffsetTableOf(tablesIn)
  /\ otpc = "parsed"
  /\ SeqUnused /\ StreamUnused /\ HandlerUnused /\ AuxUnused /\ PureUnused
  /\ TreeUnused /\ ValueUnused /\ CMapUnused /\ InterpUnused /\ WalkUnused /\ WriterUnused

\* fixOS2Table lines 59-69: if !hasOS2 { ...; ot.NumTables++ }
AddRecord ==
  /\ otpc = "parsed"
  /\ offsetTable' =
       IF os2Found THEN offsetTable
       ELSE [offsetTable EXCEPT !.NumTables = (offsetTable.NumTables + 1) % (MaxUint16 + 1)]
  /\ otpc' = "counted"
  /\ UNCHANGED <<tablesIn, os2Found, headOthers>>

\* fixOS2Table line 104: updateOffsetTable(&ot)
UpdateOffsetTable ==
  /\ otpc = "counted"
  /\ offsetTable' = updateOffsetTable(offsetTable)
  /\ otpc' = "updated"
  /\ UNCHANGED <<tablesIn, os2Found, headOthers>>

NextHead == AddRecord \/ UpdateOffsetTable

SpecHead == InitHead /\ [][NextHead]_vars

\* floor(log2 n) for 1 <= n <= 2^17 - 1
FloorLog2(n) == CHOOSE k \in 0..16 : 2^k <= n /\ n < 2^(k + 1)

\* the table count of the output: the input count, plus one when OS/2 was absent
ResultingCount == tablesIn + (IF os2Found THEN 0 ELSE 1)

\* C37: for every table count of the input, the header fixOS2Table writes
\* has searchRange = 16 * 2^floor(log2 n), entrySelector = floor(log2 n) and
\* rangeShift = 16 * n - searchRange, n being the resulting table count
C37_HeaderSearchFields ==
  otpc = "updated" =>
    /\ offsetTable.SearchRange = 16 * 2^FloorLog2(ResultingCount)
    /\ offsetTable.EntrySelector = FloorLog2(ResultingCount)
    /\ offsetTable.RangeShift = 16 * ResultingCount - offsetTable.SearchRange

\* the largest table count whose search range fits the 16-bit field
MaxFitting == (MaxUint16 + 1) \div 16 - 1

\* C37, amended: the three fields are as stated for every resulting table
\* count up to 4095, and entrySelector is floor(log2 n) for every resulting
\* count the header can hold
C37_HeaderSearchFieldsFit ==
  otpc = "updated" =>
    /\ ResultingCount <= MaxUint16 =>
         offsetTable.EntrySelector = FloorLog2(ResultingCount)
    /\ ResultingCount <= MaxFitting =>
         /\ offsetTable.SearchRange = 16 * 2^FloorLog2(ResultingCount)
         /\ offsetTable.RangeShift = 16 * ResultingCount - offsetTable.SearchRange

\* C37 witness: a font of ten tables without OS/2 has got the header of
\* eleven tables: search range 128, entry selector 3, range shift 48
C37_Witness ==
  /\ otpc = "updated" /\ ~os2Found /\ tablesIn = 10
  /\ offsetTable.NumTables = 11 /\ offsetTable.SearchRange = 128
  /\ offsetTable.EntrySelector = 3 /\ offsetTable.RangeShift = 48

\* ---------------------------------------------------------------------------
\* Names as the two parsers store them, and findTarget on the result
\* ---------------------------------------------------------------------------

\* findTarget(obj, target): val, found
findTarget(obj, target) ==
  IF obj.t # "map" THEN [found |-> FALSE, val |-> GoNil]
  ELSE IF target \in DOMAIN obj.v THEN [found |-> TRUE, val |-> obj.v[target]]
  ELSE [found |-> FALSE, val |-> GoNil]

\* the Go value g is the string cs
IsGoString(g, cs) == g.t = "string" /\ g.v = cs

\* the finished parse r of the value has every name of the value without
\* its slash: a name value is its characters, every key of a dictionary is
\* found by findTarget under its characters, with the name it has
NamesStored(r) ==
  /\ value.k = "name" => (~r.err /\ IsGoString(r.val, value.cs))
  /\ value.k = "dict" =>
       /\ ~r.err
       /\ \A i \in DOMAIN value.keys :
            /\ findTarget(r.val, value.keys[i]).found
            /\ value.vals[i].k = "name" =>
                 IsGoString(findTarget(r.val, value.keys[i]).val, value.vals[i].cs)

\* C38: every name the object parser produces, key or value, is stored
\* without its slash: `<< /Type /Pages /Kids [3 0 R] >>` gives the key Type
\* with the value Pages, and findTarget finds every key under its name
C38_NamesWithoutSlash ==
  /\ parsedObj # NotParsed => NamesStored(parsedObj)
  /\ parsedMeta # NotParsed => NamesStored(parsedMeta)

\* ---------------------------------------------------------------------------
\* normalizePageNum followed by generateSequence
\* ---------------------------------------------------------------------------

\* max(pageCount, 1)
LastPage == IF pageLen < 1 THEN 1 ELSE pageLen

\* C39: whatever start, end, base and the page count are, normalizePageNum
\* returns 1 <= start <= base <= end <= max(pageCount, 1), and the
\* generateSequence call that follows it returns no error
C39_NormalizedNeverRejected ==
  /\ pc \in {"normalized", "done"} =>
       (1 <= start /\ start <= base /\ base <= end /\ end <= LastPage)
  /\ pc = "done" => (ret = "nil" /\ Len(seqn) = end - start + 1)

\* C39 witness: a request that generateSequence rejects as it stands (start
\* beyond the last page and above end, base below 1) has been normalized for
\* a document of three pages and its sequence generated
C39_Witness ==
  /\ pc = "done" /\ ret = "nil" /\ pageLen = 3
  /\ req.start > pageLen /\ req.end < 1 /\ req.base < 1
  /\ start = 3 /\ base = 3 /\ end = 3 /\ seqn = <<3>>

\* ---------------------------------------------------------------------------
\* The handler and the producer task when CompressionMiddleware may fail
\* ---------------------------------------------------------------------------

InitServe ==
  /\ req = NoReq
  /\ start = 0 /\ end = 0 /\ base = 0
  /\ pageLen = 0 /\ seqn = <<>> /\ ret = "none" /\ pc = "idle"
  /\ doc \in DocsOf(HandlerKinds)
  /\ docState \in {"ok", "openErr", "xrefErr", "treeErr"}
  /\ docState # "ok" => doc = <<>>
  /\ pageQueue = <<>> /\ pfonts = NoMap
  /\ idx = 0 /\ pending = <<>> /\ imgCommands = <<>> /\ imgIdx = 0
  /\ fontFileList = NoMap /\ fontsDone = {} /\ emitted = <<>>
  /\ sink = "chan" /\ outCh = <<>> /\ encoded = <<>> /\ hpc = "init"
  /\ hasFile \in BOOLEAN /\ closed = FALSE /\ cancelled = FALSE
  /\ pdtpField \in HandlerHeaders /\ log = {} /\ file = "none"
  /\ PureUnused
  /\ TreeUnused /\ ValueUnused /\ CMapUnused /\ InterpUnused /\ WalkUnused /\ HeadUnused
  /\ fwNil \in BOOLEAN

\* NewPDFProtocolHandler lines 79-82 with fw = nil: the event is received,
\* sendChunk reaches chunk.Send(fw, flusher), whose w.Write on the nil
\* interface panics; the handler unwinds and its deferred cancel() and
\* close(outCh) run
SendPanic ==
  /\ hpc = "drain" /\ outCh # <<>> /\ fwNil
  /\ outCh' = Receive(outCh).rest
  /\ log' = IF FixFails(Receive(outCh).val) THEN log \cup {LogFix} ELSE log
  /\ hpc' = "returned" /\ closed' = TRUE /\ cancelled' = TRUE
  /\ UNCHANGED <<seqVars, streamVars, sink, encoded, hasFile, pdtpField, file>>
  /\ UNCHANGED pureVars
  /\ UNCHANGED unitVars

\* StreamPageContents stands at an insertData call
AtSend ==
  \/ AtEmit
  \/ /\ pc = "assets" /\ imgIdx > Len(imgCommands)
     /\ \E key \in DOMAIN fontFileList \ fontsDone : ExtractFontStream(fontFileList[key])

\* NewPDFProtocolHandler line 60: outCh <- data on the closed channel, which
\* panics in the producer task
SendOnClosed ==
  /\ sink = "chan" /\ closed /\ AtSend
  /\ pc' = "crashed"
  /\ UNCHANGED <<req, start, end, base, pageLen, seqn, ret, streamVars, handlerVars, auxVars>>
  /\ UNCHANGED pureVars
  /\ UNCHANGED unitVars

NextServe ==
  HandlerBegin \/ Drain \/ SendPanic \/ Cancel \/ ProducerExit \/ StreamNext \/ SendOnClosed

SpecServe == InitServe /\ [][NextServe]_vars

\* C40: in every interleaving of the handler and the producer task the
\* producer never sends on the queue after the queue has been closed: the
\* deferred close never runs while the producer stands at, or can still
\* reach, a send
C40_NoSendAfterClose ==
  /\ pc # "crashed"
  /\ closed => ~AtSend
====
